---- MODULE Spec2Model ----
(***************************************************************************)
(* A model of parth-dl (src/parth_dl): the shortcode/media-id codec, the   *)
(* retry decorator, the HTTP client's failure classification, the rate     *)
(* limiter and the extraction cascade driven by InstagramDownloader.       *)
(*                                                                         *)
(* Each component has its own specification over the shared variables:     *)
(*   SpecCodec    BaseExtractor._shortcode_to_mediaid/_mediaid_to_shortcode*)
(*   SpecRetry    utils.retry_on_failure around an operation, and around   *)
(*                BaseExtractor._make_request                              *)
(*   SpecLimiter  utils.RateLimiter.wait_if_needed against a clock         *)
(*   SpecSelect   InstagramDownloader._select_best_format                  *)
(*   SpecUrl      utils.validate_url, extract_username and                 *)
(*                extract_instagram_id on URL texts                        *)
(*   SpecParse    MediaExtractor._parse_media_item, _parse_graphql_media,  *)
(*                ProfilePictureExtractor._extract_from_web's page search  *)
(*   Spec         cli.main driving InstagramDownloader: get_info and the   *)
(*                two cascades, download, _download_file, list_formats     *)
(*   SpecInfo     one InstagramDownloader.get_info call, with fairness,    *)
(*                for its termination                                      *)
(***************************************************************************)
EXTENDS Integers, Sequences, FiniteSets, TLC

VARIABLES
    \* ---- codec (extractors.py 112-133)
    cpc,          \* "start" | "encoded" | "done"
    shortcode,    \* the input shortcode, a sequence of one-character strings
    media_id,     \* str(media_id): a sequence of decimal digit characters
    pk,           \* the id handed to _mediaid_to_shortcode (media_id, maybe with a _suffix)
    decoded,      \* the shortcode _mediaid_to_shortcode returned
    \* ---- retry wrapper (utils.py 83-120)
    rpc,          \* "call" | "sleep" | "returned" | "raised"
    func,         \* the decorated function: "op" (any operation) or "_make_request"
    headers,      \* for _make_request: the X-CSRFToken its headers argument holds
                  \* ("absent": no such header; "": the empty default)
    max_retries,  \* the decorator's argument
    attempt,      \* the loop variable of "for attempt in range(max_retries)"
    last_exception,
    raisedLog,    \* what each invocation of the operation raised ("none": it returned)
    respLog,      \* for _make_request: what urlopen answered to each invocation
    sleeps,       \* number of time.sleep(delay) calls made by the wrapper
    outcome,      \* what the wrapper did in the end: "none" | "return" | an exception class
    \* ---- rate limiter (utils.py 33-63)
    now,          \* the clock, time.time(), in ticks
    requests,     \* RateLimiter.requests
    callLog,      \* one record per finished wait_if_needed call: start, slept, ret
    \* ---- downloader and extractors (core.py 15-73, extractors.py 16-526)
    dpc,          \* where get_info is: "idle", a strategy's request, "returned", "raised"
    url,          \* the URL handed to get_info
    rate_limit,   \* InstagramDownloader(rate_limit=...)
    cookies,      \* per extractor instance, the csrftoken of self.cookies ("absent": none)
    sent,         \* outbound request attempts made (urlopen calls)
    sentLog,      \* the kind of each of them, in order
    waits,        \* wait_if_needed calls made
    methodLog,    \* the strategies attempted so far, each with how it ended
    info,         \* what get_info returned
    error,        \* what get_info raised ("none": nothing)
    \* ---- download and the command line (core.py 75-240, cli.py 110-165)
    xpc,          \* where main is: "extract" (in get_info), "file" (in _download_file),
                  \* "returned", "raised" (download or list_formats ended), "exited"
    quality,      \* args.quality, once download reads it
    output,       \* args.output: "none", a file path ("file") or a directory ("dir")
    selected,     \* what _select_best_format gave
    started,      \* the _download_file calls made so far: url and output path of each
    written,      \* the paths opened for writing so far
    files,        \* downloaded_files
    ret,          \* what download returned
    xerror,       \* what download or list_formats raised ("none": nothing)
    exit_code,    \* what main returned, once xpc = "exited"
    interrupt,    \* where a KeyboardInterrupt hit ("none": nowhere)
    \* ---- URL functions on their own (utils.py 148-255)
    upc,          \* "start" | "done"
    valid,        \* whether validate_url returned (FALSE: it raised ValidationError)
    username,     \* what extract_username returned
    instagram_id, \* what extract_instagram_id returned
    \* ---- parsers on their own (extractors.py 298-418, 449-486)
    ppc,          \* "start" | "done"
    upstream,     \* the record or page handed to the parser, with the parser's name
    parsed        \* what the parser returned

codecVars == <<cpc, shortcode, media_id, pk, decoded>>
retryVars == <<rpc, func, headers, max_retries, attempt, last_exception, raisedLog, respLog, sleeps, outcome>>
limVars   == <<now, requests, callLog>>
dlVars    == <<dpc, url, rate_limit, cookies, sent, sentLog, waits, methodLog, info, error>>
mainVars  == <<xpc, quality, output, selected, started, written, files, ret, xerror, exit_code,
               interrupt>>
urlVars   == <<upc, valid, username, instagram_id>>
parseVars == <<ppc, upstream, parsed>>
vars      == <<codecVars, retryVars, limVars, dlVars, mainVars, urlVars, parseVars>>

\* ------------------------------------------------------------------ bounds
MaxLen        == 3   \* longest shortcode drawn
MaxRetriesArg == 3   \* largest max_retries handed to retry_on_failure in SpecRetry
MaxRequests   == 2   \* RateLimiter.max_requests in the model
TimeWindow    == 3   \* RateLimiter.time_window in the model, in ticks
MaxTime       == 7   \* the clock is not started on a call past this tick
MaxCalls      == 4   \* wait_if_needed calls recorded in SpecLimiter
MaxFormats    == 3   \* longest formats list handed to _select_best_format in SpecSelect
MaxSegments   == 3   \* most path segments of a URL text drawn in SpecUrl
MaxCarousel   == 3   \* most carousel_media entries of an item drawn in SpecParse
MaxFields     == 3   \* most fields of a profile page drawn in SpecParse

\* ------------------------------------------------------- program constants
MaxRetries == 3      \* @retry_on_failure(max_retries=3)
Buffer     == 1      \* the "+ 0.1" of time.sleep(wait_time + 0.1), one tick
Large      == 999999 \* the default of f.get('height', 999999)
DownloadRetries == 3 \* @retry_on_failure(max_retries=3) on _download_file

\* Python's None where a number is expected, as video.get('width') gives it
NoneValue == 0 - 1

\* what download returns: nothing yet, one path, or a list of paths
NoReturn == [kind |-> "none", paths |-> << >>]

\* ----------------------------------------------------------------- helpers
Min(S) == CHOOSE x \in S : \A y \in S : x <= y
Range(s) == { s[i] : i \in 1..Len(s) }

(***************************************************************************)
(* Codec.                                                                  *)
(***************************************************************************)
Alphabet ==
    << "A","B","C","D","E","F","G","H","I","J","K","L","M",
       "N","O","P","Q","R","S","T","U","V","W","X","Y","Z",
       "a","b","c","d","e","f","g","h","i","j","k","l","m",
       "n","o","p","q","r","s","t","u","v","w","x","y","z",
       "0","1","2","3","4","5","6","7","8","9","-","_" >>

\* alphabet.index(char): 0-based
AlphabetIndex(char) == (CHOOSE i \in 1..Len(Alphabet) : Alphabet[i] = char) - 1

Digits == << "0","1","2","3","4","5","6","7","8","9" >>
DigitValue(d) == (CHOOSE i \in 1..10 : Digits[i] = d) - 1

\* str(n) for an int n >= 0: its decimal digits
RECURSIVE ToStr(_)
ToStr(n) == IF n < 10 THEN << Digits[n + 1] >>
          ELSE Append(ToStr(n \div 10), Digits[(n % 10) + 1])

\* int(s) for a string of decimal digits
RECURSIVE ParseInt(_)
ParseInt(s) == IF Len(s) = 0 THEN 0
          ELSE ParseInt(SubSeq(s, 1, Len(s) - 1)) * 10 + DigitValue(s[Len(s)])

\* s.split('_')[0]: the part of s before its first underscore
RECURSIVE SplitFirst(_)
SplitFirst(s) == IF Len(s) = 0 \/ Head(s) = "_" THEN << >>
                 ELSE << Head(s) >> \o SplitFirst(Tail(s))

\* the loop of _shortcode_to_mediaid: media_id = media_id * 64 + alphabet.index(char)
RECURSIVE ShortcodeValue(_, _)
ShortcodeValue(acc, s) ==
    IF Len(s) = 0 THEN acc
    ELSE ShortcodeValue(acc * 64 + AlphabetIndex(Head(s)), Tail(s))

shortcode_to_mediaid(s) == ToStr(ShortcodeValue(0, s))

\* a decoder that appends each symbol instead of prepending it
RECURSIVE MediaidLoopAppending(_, _)
MediaidLoopAppending(n, acc) ==
    IF n > 0 THEN MediaidLoopAppending(n \div 64, Append(acc, Alphabet[(n % 64) + 1]))
    ELSE acc

\* the loop of _mediaid_to_shortcode: while media_id > 0: prepend alphabet[media_id % 64]
RECURSIVE MediaidLoop(_, _)
MediaidLoop(n, acc) ==
    IF n > 0 THEN MediaidLoop(n \div 64, << Alphabet[(n % 64) + 1] >> \o acc)
    ELSE acc

mediaid_to_shortcode(id) == MediaidLoop(ParseInt(SplitFirst(id)), << >>)

\* the symbols shortcodes are drawn from: values 0, 1, 26, 61, 62 and 63
SampleSymbols == { "A", "B", "a", "9", "-", "_" }
Shortcodes == UNION { [1..n -> SampleSymbols] : n \in 1..MaxLen }
\* the suffix a media id may carry after its number (an owner id)
Suffixes == { << >>, << "_", "4", "2" >> }

CodecIdle == /\ cpc = "idle" /\ shortcode = << >> /\ media_id = << >>
             /\ pk = << >> /\ decoded = << >>

InitCodec == /\ cpc = "start"
             /\ shortcode \in Shortcodes
             /\ media_id = << >>
             /\ pk = << >>
             /\ decoded = << >>

Encode == /\ cpc = "start"
          /\ media_id' = shortcode_to_mediaid(shortcode)
          /\ cpc' = "encoded"
          /\ UNCHANGED <<shortcode, pk, decoded, retryVars, limVars, dlVars, mainVars, urlVars, parseVars>>

Decode == /\ cpc = "encoded"
          /\ \E suffix \in Suffixes :
                /\ pk' = media_id \o suffix
                /\ decoded' = mediaid_to_shortcode(media_id \o suffix)
          /\ cpc' = "done"
          /\ UNCHANGED <<shortcode, media_id, retryVars, limVars, dlVars, mainVars, urlVars, parseVars>>

(***************************************************************************)
(* Exceptions: the classes of utils.py 13-30 and the built-in ones the     *)
(* handlers name, with Python's subclass relation.                         *)
(***************************************************************************)
ExceptionClasses ==
    { "BaseException", "Exception", "KeyboardInterrupt", "OSError", "ConnectionError",
      "TimeoutError", "ValueError", "AttributeError", "DownloadError", "RateLimitError",
      "NetworkError", "ValidationError", "TypeError", "URLError", "HTTPError" }

BaseClass(c) ==
    CASE c = "Exception"         -> "BaseException"
      [] c = "KeyboardInterrupt" -> "BaseException"
      [] c = "OSError"           -> "Exception"
      [] c = "ConnectionError"   -> "OSError"
      [] c = "TimeoutError"      -> "OSError"
      [] c = "ValueError"        -> "Exception"
      [] c = "AttributeError"    -> "Exception"
      [] c = "DownloadError"     -> "Exception"
      [] c = "RateLimitError"    -> "DownloadError"
      [] c = "NetworkError"      -> "DownloadError"
      [] c = "ValidationError"   -> "DownloadError"
      [] c = "TypeError"         -> "Exception"
      [] c = "URLError"          -> "OSError"
      [] c = "HTTPError"         -> "URLError"
      [] OTHER                   -> "BaseException"

\* isinstance(e, cls) for an exception e of class c
RECURSIVE IsInstance(_, _)
IsInstance(c, cls) ==
    IF c = cls THEN TRUE
    ELSE IF c = "BaseException" THEN FALSE
    ELSE IsInstance(BaseClass(c), cls)

(***************************************************************************)
(* retry_on_failure(max_retries).wrapper, one handler per except clause.   *)
(* WrapperHandle tells what the wrapper does with what one invocation of   *)
(* the operation raised ("none": it returned) on loop index a of n.        *)
(***************************************************************************)
\* a wrapper whose network handler retries rate limits too
WrapperHandleRetryingRateLimit(e, a, n) ==
    IF e = "none" THEN "return"
    ELSE IF \/ IsInstance(e, "NetworkError") \/ IsInstance(e, "ConnectionError")
            \/ IsInstance(e, "TimeoutError") \/ IsInstance(e, "RateLimitError")
         THEN (IF a < n - 1 THEN "sleep" ELSE "NetworkError")
    ELSE IF IsInstance(e, "Exception") THEN "DownloadError"
    ELSE e

\* a wrapper that sleeps after the last failed attempt as well
WrapperHandleSleepingLast(e, a, n) ==
    IF e = "none" THEN "return"
    ELSE IF IsInstance(e, "RateLimitError") THEN e
    ELSE IF \/ IsInstance(e, "NetworkError") \/ IsInstance(e, "ConnectionError")
            \/ IsInstance(e, "TimeoutError")
         THEN (IF a < n THEN "sleep" ELSE "NetworkError")
    ELSE IF IsInstance(e, "Exception") THEN "DownloadError"
    ELSE e

\* a wrapper whose last handler retries unknown errors like network errors
WrapperHandleRetryingUnknown(e, a, n) ==
    IF e = "none" THEN "return"
    ELSE IF IsInstance(e, "RateLimitError") THEN e
    ELSE IF IsInstance(e, "Exception")
         THEN (IF a < n - 1 THEN "sleep" ELSE "NetworkError")
    ELSE e

\* a wrapper that gives up one attempt early
WrapperHandleGivingUpEarly(e, a, n) ==
    IF e = "none" THEN "return"
    ELSE IF IsInstance(e, "RateLimitError") THEN e
    ELSE IF \/ IsInstance(e, "NetworkError") \/ IsInstance(e, "ConnectionError")
            \/ IsInstance(e, "TimeoutError")
         THEN (IF a < n - 2 THEN "sleep" ELSE "NetworkError")
    ELSE IF IsInstance(e, "Exception") THEN "DownloadError"
    ELSE e

WrapperHandle(e, a, n) ==
    IF e = "none" THEN "return"                           \* return func(...)
    ELSE IF IsInstance(e, "RateLimitError") THEN e        \* except RateLimitError: raise
    ELSE IF \/ IsInstance(e, "NetworkError") \/ IsInstance(e, "ConnectionError")
            \/ IsInstance(e, "TimeoutError")
         THEN (IF a < n - 1 THEN "sleep" ELSE "NetworkError")
    ELSE IF IsInstance(e, "Exception") THEN "DownloadError"  \* except Exception
    ELSE e                                                \* not caught: propagates

(***************************************************************************)
(* BaseExtractor._make_request, the body under the decorator: what it      *)
(* raises for what urlopen (and the reading of the response) did.          *)
(***************************************************************************)
\* urlopen's answers: a response, an HTTPError by status, a URLError, any other
\* Exception (a timeout while reading, a bad gzip body), an interrupt
Responses == { "200", "404", "429", "403", "500", "URLError", "OtherError",
               "KeyboardInterrupt" }

\* a classification that takes 403 for a transient failure
MakeRequestRaisesRetrying403(resp) ==
    CASE resp = "200"               -> "none"
      [] resp = "404"               -> "DownloadError"
      [] resp = "429"               -> "RateLimitError"
      [] resp = "KeyboardInterrupt" -> "KeyboardInterrupt"
      [] OTHER                      -> "NetworkError"

MakeRequestRaises(resp) ==
    CASE resp = "200"               -> "none"
      [] resp = "404"               -> "DownloadError"    \* e.code == 404
      [] resp = "429"               -> "RateLimitError"   \* e.code == 429
      [] resp = "403"               -> "DownloadError"    \* e.code == 403
      [] resp = "500"               -> "NetworkError"     \* any other HTTPError
      [] resp = "URLError"          -> "NetworkError"     \* except URLError
      [] resp = "OtherError"        -> "NetworkError"     \* except Exception
      [] resp = "KeyboardInterrupt" -> "KeyboardInterrupt"

\* the csrftoken a response may set ("none": no Set-Cookie for it)
SetCookies == { "none", "tokA", "tokB" }

\* what an arbitrary decorated operation may raise
OpRaises == { "none", "NetworkError", "ConnectionError", "TimeoutError",
              "RateLimitError", "DownloadError", "ValidationError", "ValueError",
              "KeyboardInterrupt" }

RetryIdle == /\ rpc = "idle" /\ func = "none" /\ headers = "absent" /\ max_retries = 0 /\ attempt = 0
             /\ last_exception = "none" /\ raisedLog = << >> /\ respLog = << >>
             /\ sleeps = 0 /\ outcome = "none"

InitRetry == /\ rpc = "call"
             /\ \/ func = "op" /\ max_retries \in 0..MaxRetriesArg
                \/ func = "_make_request" /\ max_retries = MaxRetries
             /\ headers = "absent"
             /\ attempt = 0
             /\ last_exception = "none"
             /\ raisedLog = << >>
             /\ respLog = << >>
             /\ sleeps = 0
             /\ outcome = "none"

\* one pass of the loop body: func is invoked and raised e (or returned)
WrapperAttempt(e) ==
    LET h == WrapperHandle(e, attempt, max_retries) IN
    /\ raisedLog' = Append(raisedLog, e)
    /\ IF h = "sleep"
       THEN /\ last_exception' = e
            /\ rpc' = "sleep"
            /\ outcome' = outcome
       ELSE /\ last_exception' = (IF h = "NetworkError" THEN e ELSE last_exception)
            /\ rpc' = (IF h = "return" THEN "returned" ELSE "raised")
            /\ outcome' = h
    /\ UNCHANGED <<func, headers, max_retries, attempt, sleeps>>

InvokeOp == /\ rpc = "call" /\ func = "op" /\ attempt < max_retries
            /\ \E e \in OpRaises : WrapperAttempt(e)
            /\ UNCHANGED <<respLog, codecVars, limVars, dlVars, mainVars, urlVars, parseVars>>

\* the extractor instance whose _make_request runs at position p
Extractor(p) == IF p \in {"p_web", "p_api"} THEN "profile" ELSE "media"

\* the answers for which urlopen returned a response: with "OtherError" it may
\* have, the exception coming from response.read() or from decompressing
Delivered == { "200", "OtherError" }

\* self.cookies after a response: a Set-Cookie of a response urlopen returned is
\* stored (lines 60-65), before the body is read (67)
StoreCookies(c, p, resp, setcookie) ==
    IF resp \in Delivered /\ setcookie # "none"
    THEN [c EXCEPT ![Extractor(p)] = setcookie]
    ELSE c

\* one invocation of _make_request by the wrapper: one urlopen call
InvokeMakeRequest ==
    /\ rpc = "call" /\ func = "_make_request" /\ attempt < max_retries
    /\ \E resp \in Responses, setcookie \in SetCookies :
          /\ resp \notin Delivered => setcookie = "none"
          /\ respLog' = Append(respLog, resp)
          /\ cookies' = StoreCookies(cookies, dpc, resp, setcookie)
          /\ interrupt' = (IF resp = "KeyboardInterrupt" THEN "request" ELSE interrupt)
          /\ WrapperAttempt(MakeRequestRaises(resp))
    /\ sent' = sent + 1
    /\ sentLog' = Append(sentLog, dpc)
    /\ UNCHANGED <<codecVars, limVars, dpc, url, rate_limit, waits, methodLog, info, error,
                   xpc, quality, output, selected, started, written, files, ret, xerror,
                   exit_code, urlVars, parseVars>>

\* time.sleep(delay), then the next pass of the loop
Backoff == /\ rpc = "sleep"
           /\ sleeps' = sleeps + 1
           /\ attempt' = attempt + 1
           /\ rpc' = "call"
           /\ UNCHANGED <<func, headers, max_retries, last_exception, raisedLog, respLog, outcome,
                          codecVars, limVars, dlVars, mainVars, urlVars, parseVars>>

\* time.sleep(delay) is interrupted: the KeyboardInterrupt leaves the handler and
\* the wrapper (no except clause of the wrapper is tried for it)
BackoffInterrupted ==
    /\ rpc = "sleep"
    /\ sleeps' = sleeps + 1
    /\ rpc' = "raised"
    /\ outcome' = "KeyboardInterrupt"
    /\ interrupt' = "backoff"
    /\ UNCHANGED <<func, headers, max_retries, attempt, last_exception, raisedLog, respLog,
                   codecVars, limVars, dlVars, xpc, quality, output, selected, started,
                   written, files, ret, xerror, exit_code, urlVars, parseVars>>

\* the loop ran out without returning or raising (max_retries = 0): line 117
LoopExhausted == /\ rpc = "call" /\ attempt >= max_retries
                 /\ rpc' = "raised"
                 /\ outcome' = "NetworkError"
                 /\ UNCHANGED <<func, headers, max_retries, attempt, last_exception, raisedLog,
                                respLog, sleeps, codecVars, limVars, dlVars, mainVars, urlVars, parseVars>>

(***************************************************************************)
(* RateLimiter.wait_if_needed, as a function of the state it reads:        *)
(* the timestamps and the clock at its start. It yields the timestamps it  *)
(* leaves and how long it slept (0: it did not sleep).                     *)
(***************************************************************************)
\* a pruning that keeps a timestamp exactly one window old
PrunedInclusive(reqs, t, window) == SelectSeq(reqs, LAMBDA r : t - r <= window)

Pruned(reqs, t, window) == SelectSeq(reqs, LAMBDA r : t - r < window)

\* a limiter that lets one call too many through (> where the code has >=)
WaitIfNeededOffByOne(reqs, t, maxreq, window) ==
    LET kept == Pruned(reqs, t, window)
        wait == IF Len(kept) > maxreq /\ Len(kept) > 0
                THEN window - (t - Min(Range(kept))) ELSE 0
    IN  IF wait > 0
        THEN [requests |-> << t >>, slept |-> TRUE, sleep |-> wait + Buffer]
        ELSE [requests |-> Append(kept, t), slept |-> FALSE, sleep |-> 0]

WaitIfNeeded(reqs, t, maxreq, window) ==
    LET kept == Pruned(reqs, t, window)
        wait == IF Len(kept) >= maxreq /\ Len(kept) > 0
                THEN window - (t - Min(Range(kept))) ELSE 0
    IN  IF wait > 0
        THEN \* time.sleep(wait_time + 0.1); self.requests = []; then append(now)
             [requests |-> << t >>, slept |-> TRUE, sleep |-> wait + Buffer]
        ELSE [requests |-> Append(kept, t), slept |-> FALSE, sleep |-> 0]

LimiterIdle == /\ now = 0 /\ requests = << >> /\ callLog = << >>

InitLimiter == /\ now = 0
               /\ requests = << >>
               /\ callLog = << >>

\* time passes between two calls
Tick == /\ now < MaxTime
        /\ now' = now + 1
        /\ UNCHANGED <<requests, callLog, codecVars, retryVars, dlVars, mainVars, urlVars, parseVars>>

\* one whole call of wait_if_needed; time.sleep may return late by a tick
Wait == /\ Len(callLog) < MaxCalls
        /\ now <= MaxTime
        /\ LET w == WaitIfNeeded(requests, now, MaxRequests, TimeWindow) IN
           \E late \in 0..1 :
              /\ late = 1 => w.slept
              /\ requests' = w.requests
              /\ now' = now + (IF w.slept THEN w.sleep + late ELSE 0)
              /\ callLog' = Append(callLog,
                    [start |-> now, slept |-> w.slept,
                     ret |-> now + (IF w.slept THEN w.sleep + late ELSE 0)])
        /\ UNCHANGED <<codecVars, retryVars, dlVars, mainVars, urlVars, parseVars>>


(***************************************************************************)
(* URLs are texts: sequences of one-character strings, as shortcodes are.  *)
(* The functions of utils.py 148-255 are computed on the text the way      *)
(* their regular expressions match it: re.match at the start, re.search at *)
(* the leftmost place, a greedy character class as the longest run.        *)
(***************************************************************************)
S_https     == << "h", "t", "t", "p", "s", ":", "/", "/" >>
S_http      == << "h", "t", "t", "p", ":", "/", "/" >>
S_HTTPS     == << "H", "T", "T", "P", "S", ":", "/", "/" >>
S_ftp       == << "f", "t", "p", ":", "/", "/" >>
S_www       == << "w", "w", "w", ".", "i", "n", "s", "t", "a", "g", "r", "a", "m", ".", "c", "o", "m" >>
S_bare      == << "i", "n", "s", "t", "a", "g", "r", "a", "m", ".", "c", "o", "m" >>
S_WWW       == << "W", "W", "W", ".", "I", "n", "s", "t", "a", "g", "r", "a", "m", ".", "C", "O", "M" >>
S_evil      == << "e", "v", "i", "l", ".", "c", "o", "m" >>
S_p         == << "p" >>
S_tv        == << "t", "v" >>
S_reel      == << "r", "e", "e", "l" >>
S_reels     == << "r", "e", "e", "l", "s" >>
S_stories   == << "s", "t", "o", "r", "i", "e", "s" >>
S_explore   == << "e", "x", "p", "l", "o", "r", "e" >>
S_accounts  == << "a", "c", "c", "o", "u", "n", "t", "s" >>
S_someuser  == << "s", "o", "m", "e", "u", "s", "e", "r" >>
S_some_user == << "s", "o", "m", "e", ".", "u", "s", "e", "r" >>
S_code      == << "A", "B", "C", "1", "2", "3", "X", "Y", "Z" >>
S_codeMixed == << "A", "-", "_", "9" >>
S_JavaScript == << "J", "a", "v", "a", "S", "c", "r", "i", "p", "t", ":" >>
S_dotdot    == << ".", ".", "/" >>
S_SCRIPT    == << "<", "S", "C", "R", "I", "P", "T" >>

\* the literal instagram\.com/ of the extract_* patterns
InstagramCom == << "i", "n", "s", "t", "a", "g", "r", "a", "m", ".", "c", "o", "m", "/" >>

\* "/seg1/seg2..." for the path segments segs
RECURSIVE JoinPath(_)
JoinPath(segs) == IF Len(segs) = 0 THEN << >>
                  ELSE << "/" >> \o Head(segs) \o JoinPath(Tail(segs))

\* the URL text made of a scheme, a host, a text put into the query (inject),
\* whether the first path segment carries an @, and the path segments
Url(scheme, host, inject, at, segs) ==
    scheme \o host
    \o (IF Len(segs) = 0 THEN << "/" >>
        ELSE << "/" >> \o (IF at THEN << "@" >> ELSE << >>) \o Tail(JoinPath(segs)))
    \o (IF Len(inject) = 0 THEN << >> ELSE << "?", "q", "=" >> \o inject)

SampleUrls ==
    { Url(S_https, S_www, << >>, FALSE, << S_reel, S_code >>),
      Url(S_https, S_www, << >>, FALSE, << S_someuser, S_p, S_code >>),
      Url(S_https, S_bare, << >>, FALSE, << S_someuser >>),
      Url(S_http, S_www, << >>, TRUE, << S_someuser >>),
      Url(S_https, S_www, << >>, FALSE, << S_explore >>),
      Url(S_HTTPS, S_WWW, << >>, FALSE, << S_someuser >>),
      Url(S_https, S_www, S_JavaScript, FALSE, << S_someuser >>),
      Url(S_https, S_www, S_dotdot, FALSE, << S_reel, S_code >>),
      Url(S_https, S_www, S_SCRIPT, FALSE, << S_reel, S_code >>),
      Url(S_https, S_evil, << >>, FALSE, << S_p, S_code >>),
      Url(S_ftp, S_www, << >>, FALSE, << S_p, S_code >>),
      Url(S_https, S_www, << >>, FALSE, << S_stories, S_bare, S_someuser >>) }

NoUrl == << >>

\* what the extract_* functions give when nothing matches (Python's None)
NoMatch == << >>

\* c.lower() for one character: the upper-case letters are the first 26 of
\* Alphabet, the lower-case ones the next 26
UpperCase == { Alphabet[i] : i \in 1..26 }
LowerChar(c) == IF c \in UpperCase THEN Alphabet[AlphabetIndex(c) + 27] ELSE c

\* what re.IGNORECASE amounts to: the text is matched in lower case
Lower(s) == [i \in 1..Len(s) |-> LowerChar(s[i])]

\* s.split(c)[0]
Before(s, c) == IF \E i \in 1..Len(s) : s[i] = c
                THEN SubSeq(s, 1, Min({ i \in 1..Len(s) : s[i] = c }) - 1)
                ELSE s

\* the literal lit stands in s at position i
MatchAt(s, i, lit) == /\ i + Len(lit) - 1 <= Len(s)
                      /\ \A k \in 1..Len(lit) : s[i + k - 1] = lit[k]

\* re.search(lit, s) finds the literal somewhere
Contains(s, lit) == \E i \in 1..Len(s) : MatchAt(s, i, lit)

\* the length of the longest run of characters of cls in s from position i
RECURSIVE RunLen(_, _, _)
RunLen(s, i, cls) == IF i <= Len(s) /\ s[i] \in cls THEN 1 + RunLen(s, i + 1, cls) ELSE 0

\* the length of the run [^/]+ takes from position i
RECURSIVE NonSlashRun(_, _)
NonSlashRun(s, i) == IF i <= Len(s) /\ s[i] # "/" THEN 1 + NonSlashRun(s, i + 1) ELSE 0

\* a code class without the hyphen and the underscore
CodeCharsAlnum == Range(Alphabet) \ { "-", "_" }

CodeChars == Range(Alphabet)                              \* [A-Za-z0-9_-]
NameChars == (Range(Alphabet) \ { "-" }) \cup { "." }     \* [A-Za-z0-9_.]

\* re.search: the match at the leftmost position where the pattern matches;
\* a pattern gives << group >> where it matches and << >> where it does not
Search(s, PatternAt(_, _)) ==
    LET hits == { i \in 1..Len(s) : PatternAt(s, i) # << >> }
    IN  IF hits = { } THEN << >> ELSE PatternAt(s, Min(hits))

ValidPrefixes == { S_http \o S_bare \o << "/" >>, S_https \o S_bare \o << "/" >>,
                   S_http \o S_www \o << "/" >>, S_https \o S_www \o << "/" >> }

DangerousPatterns ==
    { << "j", "a", "v", "a", "s", "c", "r", "i", "p", "t", ":" >>,
      << "d", "a", "t", "a", ":" >>,
      << "f", "i", "l", "e", ":" >>,
      << "<", "s", "c", "r", "i", "p", "t" >>,
      S_dotdot }

\* validate_url: TRUE when it returns True, FALSE when it raises ValidationError
validate_url(u) ==
    LET low == Lower(u) IN
    /\ Len(u) > 0
    /\ \E pre \in ValidPrefixes : MatchAt(low, 1, pre)
    /\ \A d \in DangerousPatterns : ~Contains(low, d)

\* a reserved list that names the media paths only
ReservedMediaPaths == { S_p, S_reel, S_reels, S_tv }

ReservedPaths == { S_p, S_reel, S_reels, S_tv, S_stories, S_explore, S_accounts }

\* the ends "/?$" accepts after the name: $ also matches before a last newline
LineEnds == { << >>, << "/" >>, << "\n" >>, << "/", "\n" >> }

\* instagram\.com/<lead>([A-Za-z0-9_.]+)/?$ tried at position i
UsernameAt(s, i, lead) ==
    LET j == i + Len(InstagramCom) + Len(lead)
        n == RunLen(s, j, NameChars)
    IN  IF MatchAt(s, i, InstagramCom \o lead) /\ n >= 1
           /\ SubSeq(s, j + n, Len(s)) \in LineEnds
        THEN << SubSeq(s, j, j + n - 1) >> ELSE << >>

\* extract_username: the first pattern whose match is not a reserved path
extract_username(text) ==
    LET u  == Before(text, "?")
        m1 == Search(u, LAMBDA s, i : UsernameAt(s, i, << "@" >>))
        m2 == Search(u, LAMBDA s, i : UsernameAt(s, i, << >>))
    IN  IF m1 # << >> /\ m1[1] \notin ReservedPaths THEN m1[1]
        ELSE IF m2 # << >> /\ m2[1] \notin ReservedPaths THEN m2[1]
        ELSE NoMatch

\* ([A-Za-z0-9_-]+) tried at position j
CodeAt(s, j) == LET n == RunLen(s, j, CodeChars)
                IN  IF n >= 1 THEN << SubSeq(s, j, j + n - 1) >> ELSE << >>

\* (?:k1|k2|...)/([A-Za-z0-9_-]+) tried at position j
KindCodeAt(s, j, kinds) ==
    LET ends == { j + Len(k) + 1 : k \in { k \in kinds : MatchAt(s, j, k \o << "/" >>) } }
        good == { e \in ends : CodeAt(s, e) # << >> }
    IN  IF good = { } THEN << >> ELSE CodeAt(s, CHOOSE e \in good : TRUE)

\* instagram\.com/(?:p|tv|reel|reels)/([A-Za-z0-9_-]+)
StandardAt(s, i) ==
    IF MatchAt(s, i, InstagramCom)
    THEN KindCodeAt(s, i + Len(InstagramCom), { S_p, S_tv, S_reel, S_reels })
    ELSE << >>

\* instagram\.com/[^/]+/(?:p|reel|reels)/([A-Za-z0-9_-]+)
UserPostAt(s, i) ==
    LET j == i + Len(InstagramCom)
        n == NonSlashRun(s, j)
    IN  IF MatchAt(s, i, InstagramCom) /\ n >= 1 /\ MatchAt(s, j + n, << "/" >>)
        THEN KindCodeAt(s, j + n + 1, { S_p, S_reel, S_reels })
        ELSE << >>

\* instagram\.com/stories/[^/]+/([A-Za-z0-9_-]+)
StoryAt(s, i) ==
    LET j == i + Len(InstagramCom) + Len(S_stories) + 1
        n == NonSlashRun(s, j)
    IN  IF MatchAt(s, i, InstagramCom \o S_stories \o << "/" >>) /\ n >= 1
           /\ MatchAt(s, j + n, << "/" >>)
        THEN CodeAt(s, j + n + 1)
        ELSE << >>

\* extract_instagram_id: the group of the first pattern that matches
extract_instagram_id(text) ==
    LET u  == Before(Before(text, "?"), "#")
        m1 == Search(u, StandardAt)
        m2 == Search(u, UserPostAt)
        m3 == Search(u, StoryAt)
    IN  IF m1 # << >> THEN m1[1]
        ELSE IF m2 # << >> THEN m2[1]
        ELSE IF m3 # << >> THEN m3[1]
        ELSE NoMatch

is_profile_url(u) == extract_username(u) # NoMatch
is_media_url(u) == extract_instagram_id(u) # NoMatch

\* the URL texts the functions are handed in SpecUrl: a scheme and host, up to
\* MaxSegments path segments (the first with or without an @), and an ending
Prefixes == { S_https \o S_www, S_HTTPS \o S_WWW, S_https \o S_evil }
Segments == { S_p, S_tv, S_reels, S_stories, S_explore, S_someuser, S_codeMixed, S_bare }
Endings  == { << >>, << "/" >>, << "?", "h", "l", "=", "e", "n" >>, << "/", "#", "f", "r", "a", "g" >>, << "\n" >> }
SegmentLists == UNION { [1..n -> Segments] : n \in 0..MaxSegments }
UrlTexts ==
    { pre \o (IF Len(segs) = 0 THEN << >>
              ELSE << "/" >> \o (IF at THEN << "@" >> ELSE << >>) \o Tail(JoinPath(segs)))
          \o ending :
        pre \in Prefixes, at \in BOOLEAN, segs \in SegmentLists, ending \in Endings }

UrlIdle == upc = "idle" /\ valid = FALSE /\ username = NoMatch /\ instagram_id = NoMatch

InitUrl ==
    /\ dpc = "standalone" /\ url \in UrlTexts /\ rate_limit = FALSE
    /\ cookies = [e \in { "media", "profile" } |-> "absent"]
    /\ sent = 0 /\ sentLog = << >> /\ waits = 0 /\ methodLog = << >>
    /\ info = [type |-> "None", formats |-> << >>, images |-> << >>] /\ error = "none"
    /\ upc = "start" /\ valid = FALSE /\ username = NoMatch /\ instagram_id = NoMatch

\* validate_url(url), extract_username(url) and extract_instagram_id(url), each
\* called once on the same text
ClassifyUrl ==
    /\ upc = "start"
    /\ valid' = validate_url(url)
    /\ username' = extract_username(url)
    /\ instagram_id' = extract_instagram_id(url)
    /\ upc' = "done"
    /\ UNCHANGED <<codecVars, retryVars, limVars, dlVars, mainVars, parseVars>>

(***************************************************************************)
(* Upstream records and the two parsers. A format_id "video-3" is the pair *)
(* <<"video", 3>>.                                                         *)
(***************************************************************************)
Version(u, w, h) == [url |-> u, width |-> w, height |-> h]

NoItem == [video_versions |-> << >>, candidates |-> << >>, carousel_media |-> << >>]
ItemVideo == [NoItem EXCEPT !.video_versions = << Version("v0", 720, 1280), Version("v1", 480, 854) >>,
                            !.candidates = << Version("t0", 720, 1280) >>]
ItemImage == [NoItem EXCEPT !.candidates = << Version("i0", 1080, 1080), Version("i1", 640, 640) >>]
ItemCarousel ==
    [NoItem EXCEPT !.carousel_media =
        << [video_versions |-> << >>, candidates |-> << Version("c0", 1080, 1080), Version("c0s", 640, 640) >>],
           [video_versions |-> << Version("c1", 720, 1280) >>, candidates |-> << Version("c1t", 720, 1280) >>],
           [video_versions |-> << >>, candidates |-> << Version("c2", 1080, 1350) >>] >>]
\* a carousel of three images
ItemAlbum ==
    [NoItem EXCEPT !.carousel_media =
        << [video_versions |-> << >>, candidates |-> << Version("a0", 1080, 1080) >>],
           [video_versions |-> << >>, candidates |-> << Version("a1", 1080, 1350) >>],
           [video_versions |-> << >>, candidates |-> << Version("a2", 1080, 1080) >>] >>]
SampleItems == { NoItem, ItemVideo, ItemImage, ItemCarousel, ItemAlbum }

NoMedia == [is_video |-> FALSE, video_url |-> "", display_url |-> "", width |-> 0, height |-> 0]
MediaVideo == [is_video |-> TRUE, video_url |-> "gv", display_url |-> "gd", width |-> 720, height |-> 1280]
MediaImage == [is_video |-> FALSE, video_url |-> "", display_url |-> "gd", width |-> 1080, height |-> 1080]
\* a truthy media record that carries neither URL
MediaBare == [is_video |-> FALSE, video_url |-> "", display_url |-> "", width |-> 1080, height |-> 1080]
\* a video record without 'dimensions': dims.get('width') is None
MediaVideoNoDims == [MediaVideo EXCEPT !.width = NoneValue, !.height = NoneValue]
SampleMedia == { MediaVideo, MediaImage, MediaBare, MediaVideoNoDims }

\* a video entry marked as having no audio
VideoFormatSilent(v, id) == [url |-> v.url, width |-> v.width, height |-> v.height,
                             format_id |-> id, has_audio |-> FALSE, type |-> "video"]

VideoFormat(v, id) == [url |-> v.url, width |-> v.width, height |-> v.height,
                       format_id |-> id, has_audio |-> TRUE, type |-> "video"]
ImageFormat(v, id) == [url |-> v.url, width |-> v.width, height |-> v.height,
                       format_id |-> id]

None == [type |-> "None", formats |-> << >>, images |-> << >>]

ParseIdle == ppc = "idle" /\ upstream = << >> /\ parsed = None

\* the formats the carousel loop appends for carousel items idx.. (0-based idx)
RECURSIVE CarouselFormats(_, _)
CarouselFormats(cm, idx) ==
    IF Len(cm) = 0 THEN << >>
    ELSE (IF Len(Head(cm).video_versions) > 0
          THEN [i \in 1..Len(Head(cm).video_versions) |->
                   VideoFormat(Head(cm).video_versions[i], << "carousel-video", idx >>)]
          ELSE << >>)
         \o CarouselFormats(Tail(cm), idx + 1)

\* a carousel loop that takes every candidate of an image item
RECURSIVE CarouselImagesEveryCandidate(_, _)
CarouselImagesEveryCandidate(cm, idx) ==
    IF Len(cm) = 0 THEN << >>
    ELSE (IF Len(Head(cm).video_versions) = 0
          THEN [i \in 1..Len(Head(cm).candidates) |->
                   [url |-> Head(cm).candidates[i].url, width |-> Head(cm).candidates[i].width,
                    height |-> Head(cm).candidates[i].height,
                    format_id |-> << "carousel-image", idx >>]]
          ELSE << >>)
         \o CarouselImagesEveryCandidate(Tail(cm), idx + 1)

RECURSIVE CarouselImages(_, _)
CarouselImages(cm, idx) ==
    IF Len(cm) = 0 THEN << >>
    ELSE (IF Len(Head(cm).video_versions) = 0 /\ Len(Head(cm).candidates) > 0
          THEN << ImageFormat(Head(cm).candidates[1], << "carousel-image", idx >>) >>
          ELSE << >>)
         \o CarouselImages(Tail(cm), idx + 1)

\* MediaExtractor._parse_media_item
parse_media_item(item) ==
    LET vv == item.video_versions
        iv == item.candidates
        cm == item.carousel_media
    IN  [type    |-> IF Len(cm) > 0 THEN "carousel"
                     ELSE IF Len(vv) > 0 THEN "video" ELSE "image",
         formats |-> [i \in 1..Len(vv) |-> VideoFormat(vv[i], << "video", i - 1 >>)]
                     \o CarouselFormats(cm, 0),
         images  |-> (IF Len(iv) > 0 /\ Len(vv) = 0
                      THEN [i \in 1..Len(iv) |-> ImageFormat(iv[i], << "image", i - 1 >>)]
                      ELSE << >>)
                     \o CarouselImages(cm, 0)]

\* MediaExtractor._parse_graphql_media
parse_graphql_media(media) ==
    [type    |-> IF media.is_video THEN "video" ELSE "image",
     formats |-> IF media.video_url # ""
                 THEN << VideoFormat([url |-> media.video_url, width |-> media.width,
                                      height |-> media.height], << "graphql-video" >>) >>
                 ELSE << >>,
     images  |-> IF media.display_url # "" /\ media.video_url = ""
                 THEN << ImageFormat([url |-> media.display_url, width |-> media.width,
                                      height |-> media.height], << "graphql-image" >>) >>
                 ELSE << >>]

(***************************************************************************)
(* Response bodies, by what the strategies find in them: nothing they can  *)
(* parse, a document without media, an item list (API schema) or a media   *)
(* record (GraphQL schema).                                                *)
(***************************************************************************)
Body(shape, item, media) == [shape |-> shape, item |-> item, media |-> media]
Bodies == { Body("unparsable", NoItem, NoMedia), Body("nothing", NoItem, NoMedia) }
          \cup { Body("items", i, NoMedia) : i \in SampleItems }
          \cup { Body("media", NoItem, m) : m \in SampleMedia }

\* _extract_from_api, after the response: items[0] parsed, else None
ApiResult(b) == IF b.shape = "items" THEN parse_media_item(b.item) ELSE None

\* _extract_from_graphql, after the response: data.xdt_shortcode_media parsed, else None
GraphqlResult(b) == IF b.shape = "media" THEN parse_graphql_media(b.media) ELSE None

\* _extract_from_embed, after the response: an empty first item is skipped
EmbedResult(b) ==
    IF b.shape = "items" /\ b.item # NoItem THEN parse_media_item(b.item)
    ELSE IF b.shape = "media" THEN parse_graphql_media(b.media)
    ELSE None

(***************************************************************************)
(* InstagramDownloader.get_info and the two cascades. A step is taken at   *)
(* each outbound request attempt (InvokeMakeRequest, Backoff); what the    *)
(* code does between two requests is one action.                           *)
(***************************************************************************)
DefaultMaxRequests == 30    \* RateLimiter(max_requests=30, ...)
DefaultTimeWindow  == 60    \* RateLimiter(..., time_window=60)

\* a test that takes any result for usable
UsableAnyResult(r) == r # None

\* a test that looks at the result's type instead of its formats and images
UsableIfTyped(r) == r # None /\ r.type \in { "video", "image", "carousel" }

\* line 164: result and (result.get('formats') or result.get('images'))
Usable(r) == r # None /\ (Len(r.formats) > 0 \/ Len(r.images) > 0)

\* how a strategy ended, for methodLog
Ended(r) == IF r = None THEN "none" ELSE IF Usable(r) THEN "usable" ELSE "empty"

\* a handler that catches the package's own errors only
CaughtOnlyDownloadErrors(e) == IsInstance(e, "DownloadError")

\* "except Exception" catches e
Caught(e) == IsInstance(e, "Exception")

WrapperDone == rpc \in { "returned", "raised" }

\* headers built without looking at the stored cookies
HeadersAtDefault(p, c) ==
    IF p \in { "graphql", "p_api" } THEN "" ELSE "absent"

\* the X-CSRFToken of the headers a strategy builds before its request: the
\* media-info request has one if a csrftoken is stored (lines 194-195), the
\* GraphQL and profile-API requests have cookies.get('csrftoken', '') (227, 497),
\* the page requests have none
HeadersAt(p, c) ==
    CASE p = "api_info"              -> c[Extractor(p)]
      [] p \in { "graphql", "p_api" } -> (IF c[Extractor(p)] = "absent" THEN ""
                                         ELSE c[Extractor(p)])
      [] OTHER                       -> "absent"

\* self._make_request(...) is entered: the wrapper starts its loop
StartRequest ==
    /\ rpc' = "call"
    /\ func' = "_make_request"
    /\ headers' = HeadersAt(dpc', cookies)
    /\ max_retries' = MaxRetries
    /\ attempt' = 0
    /\ last_exception' = "none"
    /\ raisedLog' = << >>
    /\ respLog' = << >>
    /\ sleeps' = 0
    /\ outcome' = "none"

\* no request is running
NoRequest ==
    /\ rpc' = "idle" /\ func' = "none" /\ headers' = "absent" /\ max_retries' = 0
    /\ attempt' = 0
    /\ last_exception' = "none" /\ raisedLog' = << >> /\ respLog' = << >>
    /\ sleeps' = 0 /\ outcome' = "none"

\* get_info raises e
Raise(e) == /\ dpc' = "raised" /\ error' = e /\ info' = None /\ NoRequest

\* get_info returns r
Return(r) == /\ dpc' = "returned" /\ info' = r /\ error' = "none" /\ NoRequest

DownloaderIdle ==
    /\ dpc = "standalone" /\ url = NoUrl /\ rate_limit = FALSE
    /\ cookies = [e \in { "media", "profile" } |-> "absent"]
    /\ sent = 0 /\ sentLog = << >> /\ waits = 0 /\ methodLog = << >>
    /\ info = None /\ error = "none"

\* what an InstagramDownloader holds when get_info is called: it was just built,
\* or (one with a limiter) it was used before, so that a csrftoken is stored and
\* the limiter's window is full
PriorUses(rl) ==
    { [cookies |-> [e \in { "media", "profile" } |-> "absent"], requests |-> << >>] }
    \cup (IF rl THEN { [cookies  |-> [media |-> "tokA", profile |-> "absent"],
                        requests |-> [i \in 1..DefaultMaxRequests |-> 0]] }
          ELSE { })

InitDownloader ==
    /\ dpc = "idle"
    /\ url \in SampleUrls
    /\ rate_limit \in BOOLEAN
    /\ \E prior \in PriorUses(rate_limit) :
          /\ cookies = prior.cookies
          /\ requests = prior.requests
    /\ now = 0 /\ callLog = << >>
    /\ sent = 0 /\ sentLog = << >> /\ waits = 0 /\ methodLog = << >>
    /\ info = None /\ error = "none"

\* get_info's three tests of the URL (core.py 59, 66, 69): what validate_url,
\* is_profile_url and is_media_url give, computed once for each sample URL
UrlClass == [u \in SampleUrls |-> [valid   |-> validate_url(u),
                                   profile |-> is_profile_url(u),
                                   media   |-> is_media_url(u)]]
Valid(u)   == UrlClass[u].valid
Profile(u) == UrlClass[u].profile
Media(u)   == UrlClass[u].media

\* a get_info that lets the limiter run before it validates the URL
GetInfoWaitingFirst ==
    /\ dpc = "idle"
    /\ IF rate_limit
       THEN LET w == WaitIfNeeded(requests, now, DefaultMaxRequests, DefaultTimeWindow)
            IN  /\ requests' = w.requests
                /\ now' = now + w.sleep
                /\ waits' = waits + 1
                /\ UNCHANGED callLog
       ELSE UNCHANGED <<limVars, waits>>
    /\ IF ~Valid(url)
       THEN Raise("ValidationError")
       ELSE IF Profile(url)
       THEN /\ dpc' = "p_web" /\ StartRequest /\ UNCHANGED <<info, error>>
       ELSE IF Media(url)
       THEN /\ dpc' = "api_warmup" /\ StartRequest /\ UNCHANGED <<info, error>>
       ELSE Raise("DownloadError")
    /\ UNCHANGED <<codecVars, mainVars, url, rate_limit, cookies, sent, sentLog, methodLog, urlVars, parseVars>>

\* get_info up to its first outbound request: validate_url, wait_if_needed, the
\* choice of the cascade, and the start of that cascade's first strategy
GetInfo ==
    /\ dpc = "idle"
    /\ IF ~Valid(url)
       THEN /\ Raise("ValidationError")
            /\ UNCHANGED <<limVars, waits>>
       ELSE /\ IF rate_limit
               THEN LET w == WaitIfNeeded(requests, now, DefaultMaxRequests, DefaultTimeWindow)
                    IN  /\ requests' = w.requests
                        /\ now' = now + w.sleep
                        /\ waits' = waits + 1
                        /\ UNCHANGED callLog
               ELSE UNCHANGED <<limVars, waits>>
            /\ IF Profile(url)
               THEN /\ dpc' = "p_web" /\ StartRequest /\ UNCHANGED <<info, error>>
               ELSE IF Media(url)
               THEN /\ dpc' = "api_warmup" /\ StartRequest /\ UNCHANGED <<info, error>>
               ELSE Raise("DownloadError")
    /\ UNCHANGED <<codecVars, mainVars, url, rate_limit, cookies, sent, sentLog, methodLog, urlVars, parseVars>>

\* get_info when the limiter's time.sleep is interrupted: the pruned list is
\* already stored (line 51), nothing is appended, the KeyboardInterrupt leaves
\* wait_if_needed and get_info
WaitInterrupted ==
    /\ dpc = "idle" /\ Valid(url) /\ rate_limit
    /\ WaitIfNeeded(requests, now, DefaultMaxRequests, DefaultTimeWindow).slept
    /\ requests' = Pruned(requests, now, DefaultTimeWindow)
    /\ waits' = waits + 1
    /\ interrupt' = "limiter"
    /\ Raise("KeyboardInterrupt")
    /\ UNCHANGED <<codecVars, now, callLog, url, rate_limit, cookies, sent, sentLog,
                   methodLog, xpc, quality, output, selected, started, written, files, ret,
                   xerror, exit_code, urlVars, parseVars>>

\* the cascade's loop body after strategy `name` ended with r: return r if usable,
\* else go on with the strategy at position `next`
AfterStrategy(name, r, next) ==
    /\ methodLog' = Append(methodLog, [name |-> name, ended |-> Ended(r)])
    /\ IF Usable(r) THEN Return(r)
       ELSE /\ dpc' = next
            /\ UNCHANGED <<info, error>>
            /\ IF next = "page" THEN NoRequest ELSE StartRequest

\* a strategy whose warm-up is not guarded: what the warm-up raises ends it, and
\* the cascade goes on with the next strategy
ApiAfterWarmupUnguarded ==
    /\ dpc = "api_warmup" /\ WrapperDone
    /\ IF rpc = "raised"
       THEN IF Caught(outcome)
            THEN AfterStrategy("API", None, "page")
            ELSE Raise(outcome) /\ UNCHANGED methodLog
       ELSE /\ dpc' = "api_info" /\ StartRequest /\ UNCHANGED <<info, error, methodLog>>
    /\ UNCHANGED <<codecVars, mainVars, limVars, url, rate_limit, cookies, sent, sentLog, waits,
                   urlVars, parseVars>>

\* _extract_from_api after the warm-up request: its failure is logged, not raised
ApiAfterWarmup ==
    /\ dpc = "api_warmup" /\ WrapperDone
    /\ IF rpc = "raised" /\ ~Caught(outcome)
       THEN Raise(outcome)
       ELSE /\ dpc' = "api_info" /\ StartRequest /\ UNCHANGED <<info, error>>
    /\ UNCHANGED <<codecVars, mainVars, limVars, url, rate_limit, cookies, sent, sentLog, waits,
                   methodLog, urlVars, parseVars>>

\* _extract_from_api after the media-info request, and the cascade's step
ApiAfterInfo ==
    /\ dpc = "api_info" /\ WrapperDone
    /\ IF rpc = "raised"
       THEN IF Caught(outcome)
            THEN AfterStrategy("API", None, "page")
            ELSE Raise(outcome) /\ UNCHANGED methodLog
       ELSE \E b \in Bodies : AfterStrategy("API", ApiResult(b), "page")
    /\ UNCHANGED <<codecVars, mainVars, limVars, url, rate_limit, cookies, sent, sentLog, waits, urlVars, parseVars>>

\* the 'Direct Page' entry calls self._extract_from_page, which MediaExtractor
\* does not define: AttributeError, caught by the cascade
DirectPage ==
    /\ dpc = "page"
    /\ methodLog' = Append(methodLog, [name |-> "Direct Page", ended |-> "raised"])
    /\ IF Caught("AttributeError")
       THEN /\ dpc' = "graphql" /\ StartRequest /\ UNCHANGED <<info, error>>
       ELSE Raise("AttributeError")
    /\ UNCHANGED <<codecVars, mainVars, limVars, url, rate_limit, cookies, sent, sentLog, waits, urlVars, parseVars>>

\* a cascade that gives the GraphQL strategy a second run when its first gave
\* nothing usable
GraphqlAfterRequestAgain ==
    /\ dpc = "graphql" /\ WrapperDone
    /\ LET next == IF \E i \in 1..Len(methodLog) : methodLog[i].name = "GraphQL"
                   THEN "embed" ELSE "graphql"
       IN  IF rpc = "raised"
           THEN IF Caught(outcome)
                THEN AfterStrategy("GraphQL", None, next)
                ELSE Raise(outcome) /\ UNCHANGED methodLog
           ELSE \E b \in Bodies : AfterStrategy("GraphQL", GraphqlResult(b), next)
    /\ UNCHANGED <<codecVars, mainVars, limVars, url, rate_limit, cookies, sent, sentLog, waits, urlVars, parseVars>>

GraphqlAfterRequest ==
    /\ dpc = "graphql" /\ WrapperDone
    /\ IF rpc = "raised"
       THEN IF Caught(outcome)
            THEN AfterStrategy("GraphQL", None, "embed")
            ELSE Raise(outcome) /\ UNCHANGED methodLog
       ELSE \E b \in Bodies : AfterStrategy("GraphQL", GraphqlResult(b), "embed")
    /\ UNCHANGED <<codecVars, mainVars, limVars, url, rate_limit, cookies, sent, sentLog, waits, urlVars, parseVars>>

\* the last strategy: when it gives nothing usable the loop ends and extract raises
EmbedAfterRequest ==
    /\ dpc = "embed" /\ WrapperDone
    /\ LET finish(r) ==
             /\ methodLog' = Append(methodLog, [name |-> "Embed", ended |-> Ended(r)])
             /\ IF Usable(r) THEN Return(r) ELSE Raise("DownloadError")
       IN  IF rpc = "raised"
           THEN IF Caught(outcome) THEN finish(None)
                ELSE Raise(outcome) /\ UNCHANGED methodLog
           ELSE \E b \in Bodies : finish(EmbedResult(b))
    /\ UNCHANGED <<codecVars, mainVars, limVars, url, rate_limit, cookies, sent, sentLog, waits, urlVars, parseVars>>

\* the profile pages a response may hold: with a profile_pic_url(_hd) or without
ProfilePages == { "pic", "nothing", "unparsable" }

ProfileInfo == [type |-> "profile_picture", formats |-> << >>,
                images |-> << [url |-> "pic", format_id |-> << "profile-pic-hd" >>, type |-> "image"] >>]

\* a cascade that gives up when its first strategy raises
ProfileAfterWebStopping ==
    /\ dpc = "p_web" /\ WrapperDone
    /\ IF rpc = "raised"
       THEN /\ methodLog' = Append(methodLog, [name |-> "web", ended |-> "raised"])
            /\ Raise(IF Caught(outcome) THEN "DownloadError" ELSE outcome)
       ELSE \E page \in ProfilePages :
               IF page = "pic"
               THEN /\ methodLog' = Append(methodLog, [name |-> "web", ended |-> "usable"])
                    /\ Return(ProfileInfo)
               ELSE /\ methodLog' = Append(methodLog, [name |-> "web", ended |-> "none"])
                    /\ dpc' = "p_api" /\ StartRequest /\ UNCHANGED <<info, error>>
    /\ UNCHANGED <<codecVars, mainVars, limVars, url, rate_limit, cookies, sent, sentLog, waits, urlVars, parseVars>>

\* ProfilePictureExtractor._extract_from_web: the request is not in a try block,
\* so what the wrapper raises reaches the cascade, which catches it
ProfileAfterWeb ==
    /\ dpc = "p_web" /\ WrapperDone
    /\ LET next(how) ==
             /\ methodLog' = Append(methodLog, [name |-> "web", ended |-> how])
             /\ dpc' = "p_api" /\ StartRequest /\ UNCHANGED <<info, error>>
       IN  IF rpc = "raised"
           THEN IF Caught(outcome) THEN next("raised")
                ELSE Raise(outcome) /\ UNCHANGED methodLog
           ELSE \E page \in ProfilePages :
                   IF page = "pic"
                   THEN /\ methodLog' = Append(methodLog, [name |-> "web", ended |-> "usable"])
                        /\ Return(ProfileInfo)
                   ELSE next("none")
    /\ UNCHANGED <<codecVars, mainVars, limVars, url, rate_limit, cookies, sent, sentLog, waits, urlVars, parseVars>>

\* ProfilePictureExtractor._extract_from_api, and the end of the cascade
ProfileAfterApi ==
    /\ dpc = "p_api" /\ WrapperDone
    /\ LET fail == /\ methodLog' = Append(methodLog, [name |-> "api", ended |-> "none"])
                   /\ Raise("DownloadError")
       IN  IF rpc = "raised"
           THEN IF Caught(outcome) THEN fail
                ELSE Raise(outcome) /\ UNCHANGED methodLog
           ELSE \E page \in ProfilePages :
                   IF page = "pic"
                   THEN /\ methodLog' = Append(methodLog, [name |-> "api", ended |-> "usable"])
                        /\ Return(ProfileInfo)
                   ELSE fail
    /\ UNCHANGED <<codecVars, mainVars, limVars, url, rate_limit, cookies, sent, sentLog, waits, urlVars, parseVars>>

(***************************************************************************)
(* The parsers on their own: _parse_media_item, _parse_graphql_media and   *)
(* the page search of ProfilePictureExtractor._extract_from_web. A profile *)
(* page is the sequence of the fields the three patterns can find in it,   *)
(* in page order; a field's value is a text.                               *)
(***************************************************************************)
\* the upstream records handed to _parse_media_item in SpecParse
VersionLists   == { << >>, << Version("v0", 720, 1280) >>,
                    << Version("v0", 720, 1280), Version("v1", 480, 854) >> }
CandidateLists == { << >>, << Version("i0", 1080, 1080) >>,
                    << Version("i0", 1080, 1080), Version("i1", 640, 640) >> }
CarouselItems  == [video_versions : VersionLists, candidates : CandidateLists]
CarouselLists  == UNION { [1..n -> CarouselItems] : n \in 0..MaxCarousel }
ParserItems    == [video_versions : VersionLists, candidates : CandidateLists,
                   carousel_media : CarouselLists]

\* a GraphQL record of a carousel post: the children are under
\* edge_sidecar_to_children, a key _parse_graphql_media does not read
MediaSidecar ==
    [is_video |-> FALSE, video_url |-> "", display_url |-> "gd", width |-> 1080,
     height |-> 1080,
     edge_sidecar_to_children |-> << MediaVideo, MediaImage >>]
\* a record with a video_url whose is_video is false, and one the other way round
MediaUrlOnly  == [MediaVideo EXCEPT !.is_video = FALSE]
MediaFlagOnly == [MediaImage EXCEPT !.is_video = TRUE]
ParserMedia == SampleMedia \cup { MediaSidecar, MediaUrlOnly, MediaFlagOnly }

\* the keys a pattern of _extract_from_web finds: "legacy" is the text
\* profilePage_<id>\"profile_pic_url\":\" of the third pattern
PageKeys == { "profile_pic_url_hd", "profile_pic_url", "legacy", "other" }
V_escaped == << "a", "\\", "/", "b", "\\", "u", "0", "0", "2", "6", "c" >>
V_plain   == << "s", "d" >>
PageValues == { V_escaped, V_plain, << >> }
PageFields == [key : PageKeys, value : PageValues]
Pages == UNION { [1..n -> PageFields] : n \in 0..MaxFields }

\* s.replace(lit, by): every occurrence, from the left, without overlap
RECURSIVE Replace(_, _, _)
Replace(s, lit, by) ==
    IF Len(s) = 0 THEN << >>
    ELSE IF MatchAt(s, 1, lit) THEN by \o Replace(SubSeq(s, Len(lit) + 1, Len(s)), lit, by)
    ELSE << Head(s) >> \o Replace(Tail(s), lit, by)

\* line 470: pic_url.replace('\\u0026', '&').replace('\\/', '/')
Unescape(v) ==
    Replace(Replace(v, << "\\", "u", "0", "0", "2", "6" >>, << "&" >>),
            << "\\", "/" >>, << "/" >>)

\* the text ([^"]+) takes at a field: its value; for the third pattern the group
\* runs to the next quote, the backslash that escapes it included
FieldGroup(f) == f.value \o (IF f.key = "legacy" THEN << "\\" >> ELSE << >>)

\* re.search(pattern, webpage) for the pattern of a key: the group at the first
\* field of that key where the group is not empty, << >> when there is none
PageSearch(page, key) ==
    LET hits == { i \in 1..Len(page) : page[i].key = key /\ Len(FieldGroup(page[i])) > 0 }
    IN  IF hits = { } THEN << >> ELSE << FieldGroup(page[Min(hits)]) >>

\* a page search that takes whichever of the two fields comes first in the page
PageMatchInPageOrder(page) ==
    LET hits == { i \in 1..Len(page) :
                    /\ page[i].key \in { "profile_pic_url_hd", "profile_pic_url" }
                    /\ Len(page[i].value) > 0 }
    IN  IF hits # { } THEN << page[Min(hits)].value >>
        ELSE PageSearch(page, "legacy")

\* lines 459-467: the patterns in order, the first that matches decides
PageMatch(page) ==
    IF PageSearch(page, "profile_pic_url_hd") # << >>
    THEN PageSearch(page, "profile_pic_url_hd")
    ELSE IF PageSearch(page, "profile_pic_url") # << >>
    THEN PageSearch(page, "profile_pic_url")
    ELSE PageSearch(page, "legacy")

\* ProfilePictureExtractor._extract_from_web after the request
extract_from_web(name, page) ==
    LET m == PageMatch(page) IN
    IF m = << >> THEN None
    ELSE [id |-> name, uploader |-> name, type |-> "profile_picture", formats |-> << >>,
          images |-> << [url |-> Unescape(m[1]), format_id |-> << "profile-pic-hd" >>,
                         type |-> "image"] >>,
          thumbnail |-> Unescape(m[1])]

ParserInputs ==
    { [parser |-> "item", input |-> i] : i \in ParserItems }
    \cup { [parser |-> "graphql", input |-> m] : m \in ParserMedia }
    \cup { [parser |-> "web", input |-> [username |-> S_someuser, page |-> pg]] : pg \in Pages }

InitParse == /\ ppc = "start" /\ upstream \in ParserInputs /\ parsed = None

ParseMediaItem ==
    /\ ppc = "start" /\ upstream.parser = "item"
    /\ parsed' = parse_media_item(upstream.input)
    /\ ppc' = "done"
    /\ UNCHANGED <<codecVars, retryVars, limVars, dlVars, mainVars, urlVars, upstream>>

ParseGraphqlMedia ==
    /\ ppc = "start" /\ upstream.parser = "graphql"
    /\ parsed' = parse_graphql_media(upstream.input)
    /\ ppc' = "done"
    /\ UNCHANGED <<codecVars, retryVars, limVars, dlVars, mainVars, urlVars, upstream>>

ExtractFromWeb ==
    /\ ppc = "start" /\ upstream.parser = "web"
    /\ parsed' = extract_from_web(upstream.input.username, upstream.input.page)
    /\ ppc' = "done"
    /\ UNCHANGED <<codecVars, retryVars, limVars, dlVars, mainVars, urlVars, upstream>>

(***************************************************************************)
(* InstagramDownloader._select_best_format. A format is a record; a key it *)
(* does not have is a key missing from the dict, and NoneValue is Python's *)
(* None where a number is expected (dict.get of a key upstream left out).  *)
(* What the selector gives is [raised, value]: value is << >> for None and *)
(* << f >> for the format f.                                               *)
(***************************************************************************)
\* f.get(key, default)
Get(f, key, default) == IF key \in DOMAIN f THEN f[key] ELSE default

Returned(v) == [raised |-> "none", value |-> v]
Raised(e)   == [raised |-> e, value |-> << >>]

\* a < b for two numbers-or-None: "true", "false" or the TypeError of int < None
ItemLt(a, b) == IF a = NoneValue \/ b = NoneValue THEN "TypeError"
                ELSE IF a < b THEN "true" ELSE "false"

\* a < b for two pairs, as Python compares tuples: the first place where they
\* are not equal decides
PairLt(a, b) == IF a[1] # b[1] THEN ItemLt(a[1], b[1])
                ELSE IF a[2] # b[2] THEN ItemLt(a[2], b[2])
                ELSE "false"

\* a filter that keeps every format
AudioFilterKeepingAll(formats) == formats

\* lines 126-128: the formats with audio, or all of them when none has audio
AudioFilter(formats) ==
    LET video_formats == SelectSeq(formats, LAMBDA f : Get(f, "has_audio", FALSE))
    IN  IF Len(video_formats) > 0 THEN video_formats ELSE formats

\* a key that ranks by width before height
BestKeyWidthFirst(f) ==
    LET h == Get(f, "height", 0)
        w == Get(f, "width", 0)
    IN  IF h = NoneValue \/ w = NoneValue THEN << >> ELSE << << w, h >> >>

\* the key of 'best': (height * width, height); << >> when the product raises
\* TypeError because a dimension is None
BestKey(f) ==
    LET h == Get(f, "height", 0)
        w == Get(f, "width", 0)
    IN  IF h = NoneValue \/ w = NoneValue THEN << >> ELSE << << h * w, h >> >>

\* the key of 'worst': (height, width)
WorstKey(f) == << Get(f, "height", Large), Get(f, "width", Large) >>

\* max(formats, key=...): the first of the greatest; best is the greatest so far
RECURSIVE MaxBy(_, _)
MaxBy(best, rest) ==
    IF Len(rest) = 0 THEN Returned(<< best >>)
    ELSE IF BestKey(Head(rest)) = << >> THEN Raised("TypeError")
    ELSE IF PairLt(BestKey(best)[1], BestKey(Head(rest))[1]) = "true"
         THEN MaxBy(Head(rest), Tail(rest))
         ELSE MaxBy(best, Tail(rest))

\* min(formats, key=...): the first of the least; best is the least so far
RECURSIVE MinBy(_, _)
MinBy(best, rest) ==
    IF Len(rest) = 0 THEN Returned(<< best >>)
    ELSE LET lt == PairLt(WorstKey(Head(rest)), WorstKey(best))
         IN  IF lt = "TypeError" THEN Raised("TypeError")
             ELSE IF lt = "true" THEN MinBy(Head(rest), Tail(rest))
             ELSE MinBy(best, Tail(rest))

select_best_format(formats, q) ==
    IF Len(formats) = 0 THEN Returned(<< >>)
    ELSE LET candidates == AudioFilter(formats)
         IN  IF q = "best"
             THEN IF BestKey(Head(candidates)) = << >> THEN Raised("TypeError")
                  ELSE MaxBy(Head(candidates), Tail(candidates))
             ELSE MinBy(Head(candidates), Tail(candidates))

Qualities == { "best", "worst" }

\* the formats the selector is handed in SpecSelect: as the parsers build them
\* (with dimensions, without, with one), without audio, and with keys missing
F720     == VideoFormat(Version("f720", 720, 1280), << "video", 0 >>)
F1080    == VideoFormat(Version("f1080", 1080, 1920), << "video", 1 >>)
F480Mute == [VideoFormat(Version("f480", 480, 854), << "video", 2 >>) EXCEPT !.has_audio = FALSE]
FWide    == VideoFormat(Version("fwide", 1280, 720), << "video", 3 >>)
FNoDims  == VideoFormat(Version("fnodims", NoneValue, NoneValue), << "video", 4 >>)
FNoWidth == VideoFormat(Version("fnowidth", NoneValue, 480), << "video", 5 >>)
FBare    == [url |-> "fbare", has_audio |-> TRUE]
FImage   == ImageFormat(Version("fimage", 640, 640), << "image", 0 >>)
SampleFormats == { F720, F1080, F480Mute, FWide, FNoDims, FNoWidth, FBare, FImage }
FormatLists == UNION { [1..n -> SampleFormats] : n \in 0..MaxFormats }

NotSelected == Returned(<< >>)

MainIdle ==
    /\ xpc = "idle" /\ quality = "none" /\ output = "none" /\ selected = NotSelected
    /\ started = << >> /\ written = { } /\ files = << >> /\ ret = NoReturn
    /\ xerror = "none" /\ exit_code = 0 /\ interrupt = "none"

InitSelect ==
    /\ dpc = "standalone" /\ url = NoUrl /\ rate_limit = FALSE
    /\ cookies = [e \in { "media", "profile" } |-> "absent"]
    /\ sent = 0 /\ sentLog = << >> /\ waits = 0 /\ methodLog = << >>
    /\ error = "none"
    /\ info \in { [type |-> "video", formats |-> fs, images |-> << >>] : fs \in FormatLists }
    /\ xpc = "select" /\ quality \in Qualities /\ output = "none" /\ selected = NotSelected
    /\ started = << >> /\ written = { } /\ files = << >> /\ ret = NoReturn
    /\ xerror = "none" /\ exit_code = 0 /\ interrupt = "none"

\* one call of _select_best_format(info['formats'], quality)
SelectBestFormat ==
    /\ xpc = "select"
    /\ selected' = select_best_format(info.formats, quality)
    /\ xpc' = "selected"
    /\ UNCHANGED <<codecVars, retryVars, limVars, dlVars, quality, output, started, written,
                   files, ret, xerror, exit_code, interrupt, urlVars, parseVars>>

(***************************************************************************)
(* InstagramDownloader.download, _download_file under its retry wrapper,   *)
(* list_formats, and cli.main around them. args.quality and args.output    *)
(* are drawn where download first reads them. When get_info has returned   *)
(* to its caller, the logs kept of that call (methodLog, sentLog, sent)    *)
(* are let go; info stays, it is download's local.                         *)
(***************************************************************************)
Outputs == { "none", "file", "dir" }

\* an index written without padding
FormatUnpadded(idx) == ToStr(idx)

\* '{idx:02d}': the decimal digits of idx, zero-padded to two
Format02d(idx) == IF idx < 10 THEN << "0" >> \o ToStr(idx) ELSE ToStr(idx)

\* lines 162-166: output_dir
OutputDir(o) == IF o = "dir" THEN "dir" ELSE "cwd"

\* os.path.join(output_dir, f"{safe_title}_{media_id}[_{idx:02d}].ext")
AutoPath(dir, index, ext) == [dir |-> dir, stem |-> "title_id", index |-> index, ext |-> ext]

\* the path given with -o when it is not a directory
UserPath == [dir |-> "none", stem |-> "output", index |-> << >>, ext |-> "none"]

\* lines 186-189 and 204-207: output_path for a single file
FilePath(o, ext) == IF o = "file" THEN UserPath ELSE AutoPath(OutputDir(o), << >>, ext)

\* a download that fetches the images after the selected format
TargetsWithImages(i, sel) ==
    (IF Len(i.formats) > 0 /\ sel.value # << >> THEN << sel.value[1].url >> ELSE << >>)
    \o [k \in 1..Len(i.images) |-> i.images[k].url]

\* the URLs download hands to _download_file, in order: the selected format's
\* when formats is non-empty (line 179), else every image's (line 199)
Targets(i, sel) ==
    IF Len(i.formats) > 0
    THEN (IF sel.value # << >> THEN << sel.value[1].url >> ELSE << >>)
    ELSE [k \in 1..Len(i.images) |-> i.images[k].url]

\* the output path of the k-th of them
TargetPath(i, o, k) ==
    IF Len(i.formats) > 0 THEN FilePath(o, "mp4")
    ELSE IF Len(i.images) = 1 THEN FilePath(o, "jpg")
    ELSE AutoPath(OutputDir(o), Format02d(k), "jpg")

\* what one run of _download_file's body may do: finish, or raise at urlopen
\* (HTTPError, URLError), at open() or write() (OSError), while reading
\* (TimeoutError, ConnectionError), or be interrupted
DownloadOutcomes == { "ok", "HTTPError", "URLError", "TimeoutError", "ConnectionError",
                      "OSError", "KeyboardInterrupt" }

\* _download_file has no handler of its own: what its body raises is what the
\* wrapper sees
DownloadFileRaises(o) == IF o = "ok" THEN "none" ELSE o

\* whether open(output_path, 'wb') had run when the outcome came
Opened(o) == CASE o \in { "ok", "TimeoutError", "ConnectionError" } -> { TRUE }
               [] o \in { "HTTPError", "URLError" }                 -> { FALSE }
               [] OTHER                                             -> BOOLEAN

\* self._download_file(...) is entered: the wrapper starts its loop
StartFile ==
    /\ rpc' = "call"
    /\ func' = "_download_file"
    /\ headers' = "absent"
    /\ max_retries' = DownloadRetries
    /\ attempt' = 0
    /\ last_exception' = "none"
    /\ raisedLog' = << >>
    /\ respLog' = << >>
    /\ sleeps' = 0
    /\ outcome' = "none"

\* download calls _download_file(u, path)
BeginFile(u, path) ==
    /\ started' = Append(started, [url |-> u, path |-> path])
    /\ xpc' = "file"
    /\ xerror' = xerror
    /\ StartFile

\* download raises e
DownloadRaises(e) ==
    /\ xpc' = "raised" /\ xerror' = e /\ started' = started /\ NoRequest

\* the caller of get_info goes on: the call's frame is gone
LeaveGetInfo ==
    /\ dpc' = "done" /\ methodLog' = << >> /\ sentLog' = << >> /\ sent' = 0

\* download from the return of get_info to its first _download_file call
\* (lines 158-195, 199-210, 213-225)
Download ==
    /\ dpc = "returned" /\ xpc = "extract"
    /\ \E q \in Qualities, o \in Outputs :
          /\ quality' = q
          /\ output' = o
          /\ LET sel == IF Len(info.formats) > 0
                        THEN select_best_format(info.formats, q) ELSE selected
             IN  /\ selected' = sel
                 /\ IF sel.raised # "none" THEN DownloadRaises(sel.raised)
                    ELSE IF Len(Targets(info, sel)) = 0 THEN DownloadRaises("DownloadError")
                    ELSE BeginFile(Targets(info, sel)[1], TargetPath(info, o, 1))
    /\ LeaveGetInfo
    /\ UNCHANGED <<codecVars, limVars, url, rate_limit, cookies, waits, info, error,
                   written, files, ret, exit_code, interrupt, urlVars, parseVars>>

\* one run of _download_file's body under the wrapper: one urlopen of the file
InvokeDownloadFile ==
    /\ rpc = "call" /\ func = "_download_file" /\ attempt < max_retries
    /\ \E o \in DownloadOutcomes, opened \in BOOLEAN :
          /\ opened \in Opened(o)
          /\ respLog' = Append(respLog, o)
          /\ written' = (IF opened THEN written \cup { started[Len(started)].path }
                         ELSE written)
          /\ interrupt' = (IF o = "KeyboardInterrupt" THEN "file" ELSE interrupt)
          /\ WrapperAttempt(DownloadFileRaises(o))
    /\ UNCHANGED <<codecVars, limVars, dlVars, xpc, quality, output, selected, started,
                   files, ret, xerror, exit_code, urlVars, parseVars>>

\* download from the end of one _download_file call to the next call, or to its
\* return (lines 196, 211, 226-240); what the wrapper raised is not caught
AfterFile ==
    /\ xpc = "file" /\ WrapperDone
    /\ IF rpc = "raised"
       THEN /\ DownloadRaises(outcome)
            /\ UNCHANGED <<files, ret>>
       ELSE LET done == Append(files, started[Len(started)].path)
                more == Len(done) < Len(Targets(info, selected))
            IN  /\ files' = done
                /\ IF more
                   THEN /\ BeginFile(Targets(info, selected)[Len(done) + 1],
                                     TargetPath(info, output, Len(done) + 1))
                        /\ UNCHANGED ret
                   ELSE /\ xpc' = "returned"
                        /\ ret' = [kind  |-> IF Len(done) = 1 THEN "path" ELSE "list",
                                   paths |-> done]
                        /\ NoRequest
                        /\ UNCHANGED <<started, xerror>>
    /\ UNCHANGED <<codecVars, limVars, dlVars, quality, output, selected, written,
                   exit_code, interrupt, urlVars, parseVars>>

\* list_formats after get_info returned: it prints and returns None
ListFormats ==
    /\ dpc = "returned" /\ xpc = "extract"
    /\ xpc' = "returned"
    /\ LeaveGetInfo
    /\ UNCHANGED <<codecVars, retryVars, limVars, url, rate_limit, cookies, waits, info,
                   error, quality, output, selected, started, written, files, ret, xerror,
                   exit_code, interrupt, urlVars, parseVars>>

\* a main that reports an interrupt like any other failure
MainHandleInterruptAsFailure(e) == IF e = "none" THEN 0 ELSE 1

\* main's try block and its except clauses: the exit code for what reached it
MainHandle(e) ==
    IF e = "none" THEN 0                                   \* return 0
    ELSE IF IsInstance(e, "KeyboardInterrupt") THEN 130
    ELSE IF IsInstance(e, "ValidationError") THEN 1
    ELSE IF IsInstance(e, "RateLimitError") THEN 1
    ELSE IF IsInstance(e, "NetworkError") THEN 1
    ELSE IF IsInstance(e, "DownloadError") THEN 1
    ELSE IF IsInstance(e, "Exception") THEN 1
    ELSE 1          \* not caught: the interpreter ends with status 1

\* main returns: download or list_formats returned or raised, or get_info raised
\* under them (neither has a try block)
MainExit ==
    /\ \/ xpc \in { "returned", "raised" }
       \/ xpc = "extract" /\ dpc = "raised"
    /\ LET e == IF xpc = "extract" THEN error ELSE xerror IN
       /\ xerror' = e
       /\ exit_code' = MainHandle(e)
    /\ xpc' = "exited"
    /\ UNCHANGED <<codecVars, retryVars, limVars, dlVars, quality, output, selected,
                   started, written, files, ret, interrupt, urlVars, parseVars>>

InitMain ==
    /\ xpc = "extract" /\ quality = "none" /\ output = "none" /\ selected = NotSelected
    /\ started = << >> /\ written = { } /\ files = << >> /\ ret = NoReturn
    /\ xerror = "none" /\ exit_code = 0 /\ interrupt = "none"

(***************************************************************************)
(* Specifications.                                                         *)
(***************************************************************************)
NextCodec == Encode \/ Decode
StartCodec == InitCodec /\ RetryIdle /\ LimiterIdle /\ DownloaderIdle /\ MainIdle /\ UrlIdle /\ ParseIdle
SpecCodec == StartCodec /\ [][NextCodec]_vars

NextRetry == InvokeOp \/ InvokeMakeRequest \/ Backoff \/ LoopExhausted
StartRetry == InitRetry /\ CodecIdle /\ LimiterIdle /\ DownloaderIdle /\ MainIdle /\ UrlIdle /\ ParseIdle
SpecRetry == StartRetry /\ [][NextRetry]_vars

NextLimiter == Tick \/ Wait
StartLimiter == InitLimiter /\ CodecIdle /\ RetryIdle /\ DownloaderIdle /\ MainIdle /\ UrlIdle /\ ParseIdle
SpecLimiter == StartLimiter /\ [][NextLimiter]_vars

Next == \/ GetInfo
        \/ InvokeMakeRequest
        \/ Backoff
        \/ ApiAfterWarmup
        \/ ApiAfterInfo
        \/ DirectPage
        \/ GraphqlAfterRequest
        \/ EmbedAfterRequest
        \/ ProfileAfterWeb
        \/ ProfileAfterApi
        \/ WaitInterrupted
        \/ BackoffInterrupted
        \/ Download
        \/ InvokeDownloadFile
        \/ AfterFile
        \/ ListFormats
        \/ MainExit
Init == InitDownloader /\ CodecIdle /\ RetryIdle /\ InitMain /\ UrlIdle /\ ParseIdle

\* one get_info call on its own, every step of it taken in the end: the code
\* has no step that waits for anything but a response or a sleep, both bounded
NextInfo == \/ GetInfo
            \/ InvokeMakeRequest
            \/ Backoff
            \/ ApiAfterWarmup
            \/ ApiAfterInfo
            \/ DirectPage
            \/ GraphqlAfterRequest
            \/ EmbedAfterRequest
            \/ ProfileAfterWeb
            \/ ProfileAfterApi
            \/ WaitInterrupted
            \/ BackoffInterrupted
SpecInfo == Init /\ [][NextInfo]_vars /\ WF_vars(NextInfo)

NextSelect == SelectBestFormat
StartSelect == InitSelect /\ CodecIdle /\ RetryIdle /\ LimiterIdle /\ UrlIdle /\ ParseIdle
SpecSelect == StartSelect /\ [][NextSelect]_vars
Spec == Init /\ [][Next]_vars

NextParse == ParseMediaItem \/ ParseGraphqlMedia \/ ExtractFromWeb
StartParse == InitParse /\ CodecIdle /\ RetryIdle /\ LimiterIdle /\ DownloaderIdle /\ MainIdle
              /\ UrlIdle
SpecParse == StartParse /\ [][NextParse]_vars

NextUrl == ClassifyUrl
StartUrl == InitUrl /\ CodecIdle /\ RetryIdle /\ LimiterIdle /\ MainIdle /\ ParseIdle
SpecUrl == StartUrl /\ [][NextUrl]_vars

(***************************************************************************)
(* Properties.                                                             *)
(***************************************************************************)

\* the classes the wrapper's second handler names
NetworkClassified(e) ==
    e # "none" /\ (\/ IsInstance(e, "NetworkError") \/ IsInstance(e, "ConnectionError")
                   \/ IsInstance(e, "TimeoutError"))

\* an Exception that is neither a rate limit nor network-classified
Unclassified(e) ==
    /\ e # "none" /\ IsInstance(e, "Exception")
    /\ ~IsInstance(e, "RateLimitError") /\ ~NetworkClassified(e)

Calls == Len(raisedLog)

\* C1 as stated: decoding the media id of any non-empty shortcode gives the
\* shortcode back, also when the shortcode starts with 'A'.
C1_RoundTripAll ==
    (cpc = "done" /\ pk = media_id) => decoded = shortcode

\* C1, amended: _mediaid_to_shortcode(_shortcode_to_mediaid(s)) = s for every
\* non-empty shortcode s over the alphabet whose first symbol is not 'A'; the
\* leading 'A's of a shortcode (digits of value 0) are dropped by the decoder.
C1_RoundTrip ==
    (cpc = "done" /\ pk = media_id /\ shortcode[1] # "A") => decoded = shortcode

C1_Witness ==
    /\ cpc = "done" /\ pk = media_id
    /\ Len(shortcode) >= 2 /\ shortcode[1] = "_" /\ shortcode[2] = "A"
    /\ decoded = shortcode

\* C2: when the operation raised a network-classified error on each of its
\* first k calls, k < max_retries, the wrapper is still going (it has neither
\* returned nor raised), and when call k+1 then returns, the wrapper returns
\* that value after k+1 invocations and k backoff sleeps.
C2_RetryThenSuccess ==
    /\ ( /\ rpc # "idle"
         /\ Calls < max_retries
         /\ \A i \in 1..Calls : NetworkClassified(raisedLog[i]) )
       => ( /\ rpc \in { "call", "sleep" } /\ outcome = "none"
            /\ sleeps = (IF rpc = "call" THEN Calls ELSE Calls - 1) )
    /\ ( /\ Calls >= 1
         /\ raisedLog[Calls] = "none"
         /\ \A i \in 1..(Calls - 1) : NetworkClassified(raisedLog[i]) )
       => ( /\ rpc = "returned" /\ outcome = "return"
            /\ sleeps = Calls - 1
            /\ Calls <= max_retries )

C2_Witness ==
    /\ func = "op" /\ max_retries = 3 /\ rpc = "returned"
    /\ raisedLog = << "NetworkError", "NetworkError", "none" >>
    /\ sleeps = 2

\* C3: a RateLimitError raised by the operation on any attempt is the last
\* invocation; the wrapper raises RateLimitError itself and does not sleep for
\* it (its sleeps are those of the earlier network failures); rate limited on
\* the first attempt, the operation was invoked exactly once.
C3_RateLimitFailsFast ==
    \A i \in 1..Calls :
        IsInstance(raisedLog[i], "RateLimitError")
        => ( /\ i = Calls
             /\ rpc = "raised" /\ outcome = "RateLimitError"
             /\ sleeps = i - 1
             /\ (IsInstance(raisedLog[1], "RateLimitError") => Calls = 1 /\ sleeps = 0) )

C3_Witness ==
    /\ func = "op" /\ rpc = "raised" /\ outcome = "RateLimitError"
    /\ raisedLog = << "TimeoutError", "RateLimitError" >> /\ sleeps = 1

\* C4: the operation is never invoked more than max_retries times; when every
\* call raised a network-classified error and the wrapper has ended, there were
\* exactly max_retries calls and max_retries - 1 sleeps and the wrapper raised
\* NetworkError for the last failure.
C4_RetriesExhausted ==
    /\ Calls <= max_retries
    /\ ( /\ rpc \in { "returned", "raised" }
         /\ Calls >= 1
         /\ \A i \in 1..Calls : NetworkClassified(raisedLog[i]) )
       => ( /\ Calls = max_retries
            /\ sleeps = max_retries - 1
            /\ rpc = "raised" /\ outcome = "NetworkError"
            /\ last_exception = raisedLog[Calls] )

C4_Witness ==
    /\ func = "op" /\ max_retries = 3 /\ rpc = "raised" /\ outcome = "NetworkError"
    /\ raisedLog = << "NetworkError", "ConnectionError", "TimeoutError" >>
    /\ sleeps = 2

\* C5: an exception of the operation that is neither RateLimitError nor
\* network-classified ends the wrapper at once: it is the last invocation, no
\* sleep follows it, and the wrapper raises DownloadError (it does not return);
\* raised by the first call, the operation was invoked exactly once and the
\* wrapper never slept.
C5_UnknownNotRetried ==
    \A i \in 1..Calls :
        Unclassified(raisedLog[i])
        => ( /\ i = Calls
             /\ rpc = "raised" /\ outcome = "DownloadError"
             /\ sleeps = i - 1
             /\ (Unclassified(raisedLog[1]) => Calls = 1 /\ sleeps = 0) )

C5_Witness ==
    /\ func = "op" /\ rpc = "raised" /\ outcome = "DownloadError"
    /\ raisedLog = << "ValueError" >> /\ sleeps = 0

\* C6: _make_request under its wrapper. A 429 answer is the last attempt and
\* gives RateLimitError; a 404 or a 403 answer is the last attempt and gives a
\* plain DownloadError; as the first answer, each of them ends the request
\* after exactly one attempt. Any other HTTP error or connection-level failure
\* is NetworkError to the wrapper and is retried; when every attempt failed so,
\* the request ends after exactly 3 attempts with NetworkError.
Transient(resp) == resp \in { "500", "URLError", "OtherError" }

C6_FailureClassification ==
    func = "_make_request" =>
      /\ \A i \in 1..Len(respLog) :
           /\ respLog[i] = "429"
              => ( /\ i = Len(respLog) /\ rpc = "raised" /\ outcome = "RateLimitError"
                   /\ (respLog[1] = "429" => Len(respLog) = 1) )
           /\ respLog[i] \in { "404", "403" }
              => ( /\ i = Len(respLog) /\ rpc = "raised" /\ outcome = "DownloadError"
                   /\ (respLog[1] \in { "404", "403" } => Len(respLog) = 1) )
           /\ Transient(respLog[i]) => raisedLog[i] = "NetworkError"
           /\ (Transient(respLog[i]) /\ i < MaxRetries)
              => (i < Len(respLog) \/ rpc = "sleep" \/ rpc = "call")
      /\ ( /\ rpc \in { "returned", "raised" }
           /\ \A i \in 1..Len(respLog) : Transient(respLog[i]) )
         => ( /\ Len(respLog) = MaxRetries
              /\ rpc = "raised" /\ outcome = "NetworkError" )

C6_Witness ==
    /\ func = "_make_request" /\ dpc = "standalone"
    /\ respLog = << "403" >> /\ rpc = "raised" /\ outcome = "DownloadError"

\* C7: starting empty, none of the first max_requests calls sleeps; call
\* max_requests + 1, started while the first call's timestamp (the oldest of the
\* recorded ones) is younger than the window, sleeps and does not return before
\* that timestamp is at least one window old.
C7_BlocksWhenSaturated ==
    /\ \A i \in 1..Len(callLog) : i <= MaxRequests => ~callLog[i].slept
    /\ ( /\ Len(callLog) > MaxRequests
         /\ callLog[MaxRequests + 1].start - callLog[1].start < TimeWindow )
       => ( /\ callLog[MaxRequests + 1].slept
            /\ callLog[MaxRequests + 1].ret - callLog[1].start >= TimeWindow )

C7_Witness ==
    /\ Len(callLog) > MaxRequests
    /\ callLog[MaxRequests].start > callLog[1].start
    /\ callLog[MaxRequests + 1].start - callLog[1].start < TimeWindow
    /\ callLog[MaxRequests + 1].slept

\* C8 as stated: in every execution, no interval shorter than time_window
\* holds the return of more than max_requests wait_if_needed calls: any
\* max_requests + 1 successive returns span at least time_window.
C8_NeverExceeds ==
    \A i, j \in 1..Len(callLog) :
        j - i >= MaxRequests => callLog[j].ret - callLog[i].ret >= TimeWindow

\* C9 as stated: with rate limiting enabled, every outbound request attempt is
\* preceded by a wait_if_needed call of its own, so there are never more
\* request attempts than wait_if_needed calls (than timestamps recorded).
C9_EveryRequestThrottled ==
    rate_limit => (sent <= waits /\ sent <= Len(requests))

\* C10: the media cascade attempts API, Direct Page, GraphQL, Embed in that
\* order; a strategy is attempted (and its requests are sent) only after every
\* earlier one raised or gave no usable result; the first usable result is what
\* get_info returns, and nothing is attempted after it.
MediaOrder == << "API", "Direct Page", "GraphQL", "Embed" >>

\* the strategy a request at position p belongs to, by its place in MediaOrder
StrategyOf(p) == CASE p \in { "api_warmup", "api_info" } -> 1
                   [] p = "page"    -> 2
                   [] p = "graphql" -> 3
                   [] p = "embed"   -> 4
                   [] OTHER         -> 0

C10_CascadeOrder ==
    (Media(url) /\ ~Profile(url)) =>
      /\ Len(methodLog) <= Len(MediaOrder)
      /\ \A i \in 1..Len(methodLog) :
           /\ methodLog[i].name = MediaOrder[i]
           /\ i < Len(methodLog) => methodLog[i].ended \in { "raised", "none", "empty" }
      /\ \A i \in 1..Len(sentLog) :
           /\ StrategyOf(sentLog[i]) >= 1
           /\ StrategyOf(sentLog[i]) <= Len(methodLog) + 1
           /\ i > 1 => StrategyOf(sentLog[i - 1]) <= StrategyOf(sentLog[i])
      /\ StrategyOf(dpc) >= 1 => Len(methodLog) = StrategyOf(dpc) - 1
      /\ dpc = "returned"
         => ( /\ Len(methodLog) >= 1
              /\ methodLog[Len(methodLog)].ended = "usable"
              /\ Len(info.formats) > 0 \/ Len(info.images) > 0
              /\ \A i \in 1..Len(sentLog) : StrategyOf(sentLog[i]) <= Len(methodLog) )
      /\ (Len(methodLog) >= 1 /\ methodLog[Len(methodLog)].ended = "usable")
         => dpc = "returned"

C10_Witness ==
    /\ dpc = "returned"
    /\ Len(methodLog) = 3
    /\ methodLog[1].ended = "empty" /\ methodLog[2].ended = "raised"
    /\ methodLog[3].name = "GraphQL" /\ methodLog[3].ended = "usable"
    /\ info.type = "video"

\* the URL goes to the media cascade (get_info tests is_profile_url first)
MediaCascade == Valid(url) /\ Media(url) /\ ~Profile(url)
ProfileCascade == Valid(url) /\ Profile(url)

\* C11 as stated: in the media cascade nothing raised inside a strategy, of
\* whatever exception class, leaves extract: the only error get_info raises
\* there is the terminal DownloadError, after all four strategies.
C11_ContainsEveryClass ==
    (MediaCascade /\ dpc = "raised")
    => ( /\ error = "DownloadError"
         /\ Len(methodLog) = Len(MediaOrder)
         /\ \A i \in 1..Len(methodLog) : methodLog[i].ended # "usable" )

\* C11, amended: in the media cascade an exception of class Exception raised
\* inside a strategy never leaves extract: extract raises only the terminal
\* DownloadError, and only after all four strategies raised or gave nothing
\* usable; a strategy that raised is followed by the next one. What is not an
\* Exception (KeyboardInterrupt) is the one thing that passes through.
C11_Containment ==
    /\ []( MediaCascade =>
             /\ error \in { "none", "DownloadError", "KeyboardInterrupt" }
             /\ (dpc = "raised" /\ error = "DownloadError")
                => ( /\ Len(methodLog) = Len(MediaOrder)
                     /\ \A i \in 1..Len(methodLog) : methodLog[i].ended # "usable" )
             /\ \A i \in 1..Len(methodLog) :
                  (methodLog[i].ended = "raised" /\ i < Len(MediaOrder))
                  => (Len(methodLog) > i \/ StrategyOf(dpc) = i + 1
                      \/ error = "KeyboardInterrupt") )
    /\ [][ (MediaCascade /\ rpc = "raised" /\ Caught(outcome))
           => ( /\ error' \in { "none", "DownloadError" }
                /\ error' = "DownloadError" => dpc = "embed"
                /\ dpc # "embed" => StrategyOf(dpc') >= StrategyOf(dpc) ) ]_vars

C11_Witness ==
    /\ MediaCascade /\ dpc = "raised" /\ error = "DownloadError"
    /\ Len(methodLog) = 4
    /\ methodLog[1].ended = "none" /\ methodLog[2].ended = "raised"
    /\ methodLog[3].ended = "none" /\ methodLog[4].ended = "none"
    /\ sent = 12

\* C12 as stated: when a request made during get_info is answered 429 (its
\* wrapper raised RateLimitError), the next thing that happens is get_info
\* raising RateLimitError; no other request is started in that call.
C12_RateLimitPropagates ==
    [][ (dpc \notin { "standalone", "idle" } /\ rpc = "raised" /\ outcome = "RateLimitError")
        => (dpc' = "raised" /\ error' = "RateLimitError") ]_vars

\* C13: whatever get_info returns, from either cascade, has a non-empty formats
\* or a non-empty images; a strategy result with both empty is logged as a
\* failed strategy and is never the one returned.
C13_UsableResult ==
    /\ dpc = "returned"
       => ( /\ info # None
            /\ Len(info.formats) > 0 \/ Len(info.images) > 0
            /\ methodLog[Len(methodLog)].ended = "usable" )
    /\ dpc \notin { "returned", "done" } => info = None
    /\ \A i \in 1..Len(methodLog) :
         methodLog[i].ended = "empty" => (i < Len(methodLog) \/ dpc # "returned")

C13_Witness ==
    /\ dpc = "returned" /\ Len(methodLog) = 4
    /\ methodLog[1].ended = "empty" /\ methodLog[3].ended = "empty"
    /\ methodLog[4].ended = "usable"
    /\ info.type = "carousel" /\ Len(info.formats) > 0 /\ Len(info.images) > 0

\* ---- the format selector: what the claims speak of
HasAudio(f) == Get(f, "has_audio", FALSE)
AnyAudio(fs) == \E i \in 1..Len(fs) : HasAudio(fs[i])

\* the candidates the audio filter leaves, as a set
CandidateSet(fs) == { f \in Range(fs) : AnyAudio(fs) => HasAudio(f) }

\* no dimension of f is None (a key that is missing takes the default)
Comparable(f) == Get(f, "height", 0) # NoneValue /\ Get(f, "width", 0) # NoneValue

\* f has both dimensions: the keys are there and hold numbers
HasBothDimensions(f) ==
    /\ "height" \in DOMAIN f /\ "width" \in DOMAIN f
    /\ f.height # NoneValue /\ f.width # NoneValue

Area(f) == Get(f, "height", 0) * Get(f, "width", 0)

\* a dimension with what is missing taken for infinitely large
Effective(f, key) == IF key \notin DOMAIN f \/ f[key] = NoneValue THEN Large ELSE f[key]

\* C14: the selector returns None exactly when the list is empty; what it
\* returns otherwise is an element of the list, one with audio whenever some
\* element has audio (for either quality); when no element has audio, the one
\* returned is the best (the worst) of the whole list; and a non-empty list
\* whose dimensions can be compared always gets an element returned.
C14_AudioFilter ==
    xpc = "selected" =>
      LET fs == info.formats IN
      /\ (selected = Returned(<< >>)) <=> (Len(fs) = 0)
      /\ selected.value # << >>
         => ( /\ selected.raised = "none"
              /\ selected.value[1] \in Range(fs)
              /\ AnyAudio(fs) => HasAudio(selected.value[1]) )
      /\ (selected.value # << >> /\ ~AnyAudio(fs))
         => \A f \in Range(fs) :
               IF quality = "best"
               THEN Area(f) <= Area(selected.value[1])
               ELSE Effective(f, "height") >= Effective(selected.value[1], "height")
      /\ (Len(fs) > 0 /\ \A f \in Range(fs) : Comparable(f))
         => selected.value # << >>

C14_Witness ==
    /\ xpc = "selected" /\ quality = "worst"
    /\ info.formats = << F480Mute, F1080, F720 >>
    /\ selected = Returned(<< F720 >>)

\* C15: with 'best', the format returned has the greatest width*height among
\* the candidates the audio filter leaves, and the greatest height among those
\* of that area; for [720p with audio, 1080p with audio, 480p without] it is
\* the 1080p one.
C15_BestIsMaximal ==
    (xpc = "selected" /\ quality = "best") =>
      /\ selected.value # << >>
         => LET v == selected.value[1] IN
            /\ v \in CandidateSet(info.formats)
            /\ \A f \in CandidateSet(info.formats) :
                  \/ Area(f) < Area(v)
                  \/ Area(f) = Area(v) /\ Get(f, "height", 0) <= Get(v, "height", 0)
      /\ info.formats = << F720, F1080, F480Mute >> => selected = Returned(<< F1080 >>)
      /\ (Len(info.formats) > 0 /\ \A f \in CandidateSet(info.formats) : Comparable(f))
         => selected.value # << >>

C15_Witness ==
    /\ xpc = "selected" /\ quality = "best"
    /\ info.formats = << F720, F1080, F480Mute >>
    /\ selected = Returned(<< F1080 >>)

\* C16 as stated: with 'worst', a format is returned that has the least height
\* among the candidates and the least width among those of that height, a
\* dimension that is missing (None, as the parsers store it) counting as
\* infinitely large; so the comparison never fails, and no candidate lacking a
\* dimension is returned while a candidate with both dimensions exists.
C16_WorstMissingIsInfinite ==
    (xpc = "selected" /\ quality = "worst" /\ Len(info.formats) > 0) =>
      /\ selected.raised = "none" /\ selected.value # << >>
      /\ selected.value # << >>
         => LET v == selected.value[1] IN
            /\ \A f \in CandidateSet(info.formats) :
                  \/ Effective(v, "height") < Effective(f, "height")
                  \/ /\ Effective(v, "height") = Effective(f, "height")
                     /\ Effective(v, "width") <= Effective(f, "width")
            /\ (\E f \in CandidateSet(info.formats) : HasBothDimensions(f))
               => HasBothDimensions(v)

\* ---- download and main: what the claims speak of
\* download (not list_formats) has taken over from get_info
Downloading == dpc = "done" /\ quality # "none"

ImageUrls(i) == { i.images[k].url : k \in 1..Len(i.images) }

\* C17: when info's formats is non-empty, download calls _download_file at
\* most once, and exactly once when the selector gave a format; the URL is the
\* one of the format the selector chose, never an image's; at most one path is
\* ever opened for writing, the one handed to that call; and when download
\* returns, it returns that single path.
C17_OneFormat ==
    (Downloading /\ Len(info.formats) > 0) =>
      /\ selected = select_best_format(info.formats, quality)
      /\ Len(started) <= 1
      /\ (selected.raised = "none") <=> (Len(started) = 1)
      /\ \A i \in 1..Len(started) :
           /\ started[i].url = selected.value[1].url
           /\ started[i].url \notin ImageUrls(info)
           /\ started[i].path = FilePath(output, "mp4")
      /\ \A path \in written : Len(started) = 1 /\ path = started[1].path
      /\ Len(files) <= 1
      /\ ret.kind # "none"
         => ( /\ ret = [kind |-> "path", paths |-> << started[1].path >>]
              /\ files = << started[1].path >>
              /\ written = { started[1].path }
              /\ xerror = "none" )

C17_Witness ==
    /\ Downloading /\ xpc = "returned"
    /\ info.type = "carousel" /\ Len(info.formats) > 0 /\ Len(info.images) = 2
    /\ ret.kind = "path" /\ Len(started) = 1

\* C18: when info has no formats and k > 1 images, download fetches the
\* images one at a time in the order of images: call i is for image i and goes
\* to a path whose index is i written with two digits; call i+1 is made only
\* when call i has returned; when a call raises, what it raised is what download
\* raises and no later image is fetched; when download returns, it returns the
\* list of the k paths in order.
C18_CarouselInOrder ==
    (Downloading /\ Len(info.formats) = 0 /\ Len(info.images) > 1) =>
      LET k == Len(info.images) IN
      /\ Len(started) <= k
      /\ \A i \in 1..Len(started) :
           /\ started[i].url = info.images[i].url
           /\ started[i].path.index = Format02d(i)
           /\ Len(started[i].path.index) = 2 /\ ParseInt(started[i].path.index) = i
           /\ started[i].path.ext = "jpg"
           /\ started[i].path.dir = OutputDir(output)
           /\ \A j \in 1..Len(started) : started[j].path = started[i].path => j = i
      /\ Len(started) >= 1
      /\ Len(started) <= Len(files) + 1
      /\ files = [i \in 1..Len(files) |-> started[i].path]
      /\ (xpc = "file") => Len(started) = Len(files) + 1
      /\ xerror # "none"
         => ( /\ Len(started) = Len(files) + 1
              /\ ret = NoReturn
              /\ xerror \in { "NetworkError", "DownloadError", "KeyboardInterrupt" } )
      /\ ret.kind # "none"
         => ( /\ ret = [kind |-> "list", paths |-> [i \in 1..k |-> started[i].path]]
              /\ Len(files) = k /\ xerror = "none" )
      /\ xpc \in { "returned", "raised", "exited" } => (xerror # "none" \/ ret.kind # "none")

C18_Witness ==
    /\ Downloading /\ xpc = "raised" /\ xerror = "NetworkError"
    /\ Len(info.formats) = 0 /\ Len(info.images) = 3
    /\ Len(started) = 2 /\ Len(files) = 1
    /\ started[2].path.index = << "0", "2" >>

\* C19: a KeyboardInterrupt, wherever it hits (a request of a strategy, a backoff
\* sleep, the limiter's sleep, a file download), is caught by nothing but main:
\* from then on it is what the wrapper, get_info and download raise, no request
\* and no download is started after it, and main returns 130. main returns 130
\* for nothing else, 0 when nothing was raised and 1 for every other failure.
C19_Interrupt ==
    /\ []( /\ xpc = "exited"
              => exit_code = (IF xerror = "none" THEN 0
                              ELSE IF xerror = "KeyboardInterrupt" THEN 130 ELSE 1)
           /\ (xpc = "exited" /\ exit_code = 130) => interrupt # "none"
           /\ interrupt # "none"
              => \/ rpc = "raised" /\ outcome = "KeyboardInterrupt"
                 \/ xpc = "extract" /\ dpc = "raised" /\ error = "KeyboardInterrupt"
                 \/ xpc = "raised" /\ xerror = "KeyboardInterrupt"
                 \/ xpc = "exited" /\ xerror = "KeyboardInterrupt" /\ exit_code = 130 )
    /\ [][ interrupt # "none"
           => ( /\ sent' = sent /\ started' = started /\ files' = files
                /\ ret' = NoReturn /\ info' = info /\ rpc' # "call" ) ]_vars

C19_Witness ==
    /\ xpc = "exited" /\ exit_code = 130
    /\ interrupt = "backoff"
    /\ Len(started) = 2 /\ Len(files) = 1

\* C20: for a URL validate_url refuses, get_info raises ValidationError as its
\* first and only step: the limiter's timestamps, the clock and the cookies of
\* both extractors are as they were, no wait_if_needed call and no request is
\* made; and ValidationError is raised for no other URL.
C20_ValidationFirst ==
    /\ []( /\ ~Valid(url)
              => ( /\ dpc \in { "idle", "raised" }
                   /\ dpc = "raised" => error = "ValidationError"
                   /\ sent = 0 /\ sentLog = << >> /\ waits = 0 /\ methodLog = << >>
                   /\ interrupt = "none" /\ started = << >> )
           /\ error = "ValidationError" => ~Valid(url) )
    /\ [][ (~Valid(url) /\ dpc = "idle")
           => ( /\ dpc' = "raised" /\ error' = "ValidationError"
                /\ requests' = requests /\ now' = now /\ cookies' = cookies
                /\ sent' = sent /\ waits' = waits ) ]_vars

C20_Witness ==
    /\ dpc = "raised" /\ error = "ValidationError"
    /\ Contains(url, S_JavaScript)
    /\ Len(requests) = DefaultMaxRequests /\ cookies.media = "tokA"

\* ---- the URL functions: what the claims speak of
Classified == upc = "done"

\* a URL text that starts with http(s)://(www.)instagram.com/, in lower case
CanonicalPrefixes == { S_https \o S_www, S_http \o S_www, S_https \o S_bare, S_http \o S_bare }

\* the path kinds a media URL is recognized by
MediaKinds == { S_p, S_tv, S_reel, S_reels }

\* the text has a path segment the patterns of extract_instagram_id look for
Recognized(u) ==
    \E k \in MediaKinds \cup { S_stories } :
        Contains(Before(Before(u, "?"), "#"), << "/" >> \o k \o << "/" >>)

\* the segments drawn that are codes (over A-Za-z0-9_-) and names (over A-Za-z0-9_.)
Codes == { c \in Segments : \A i \in 1..Len(c) : c[i] \in Range(Alphabet) }
Names == { c \in Segments : \A i \in 1..Len(c) : c[i] \in (Range(Alphabet) \ { "-" }) \cup { "." } }

\* C21 as stated: no URL text that validate_url accepts is both a profile URL
\* and a media URL.
C21_Exclusive ==
    (Classified /\ valid) => ~(username # NoMatch /\ instagram_id # NoMatch)

\* C22: for a text instagram.com/(p|tv|reel|reels)/<code> after the scheme and
\* host, <code> non-empty over A-Za-z0-9_-, with or without a trailing slash, a
\* query string or a fragment, extract_instagram_id returns <code>; for a text
\* with none of the path segments its patterns look for, it returns none.
C22_ExtractId ==
    Classified =>
      /\ \A pre \in CanonicalPrefixes, k \in MediaKinds, c \in Codes :
           \A ending \in { << >>, << "/" >>, << "?", "h", "l", "=", "e", "n" >>,
                           << "/", "#", "f", "r", "a", "g" >>, << "#", "f", "r", "a", "g" >>,
                           << "/", "?", "h", "l", "=", "e", "n" >> } :
              url = pre \o << "/" >> \o k \o << "/" >> \o c \o ending
              => instagram_id = c
      /\ ~Recognized(url) => instagram_id = NoMatch

C22_Witness ==
    /\ Classified
    /\ url = S_https \o S_www \o << "/" >> \o S_reels \o << "/" >> \o S_codeMixed
             \o << "/", "#", "f", "r", "a", "g" >>
    /\ instagram_id = S_codeMixed

\* C23: for a text instagram.com/<name> or instagram.com/@<name> after the
\* scheme and host, with or without a trailing slash or a query string, <name>
\* over A-Za-z0-9_. and not a reserved word, extract_username returns <name>;
\* when that single segment is a reserved word, with or without the @, it
\* returns none.
C23_ExtractUsername ==
    Classified =>
      \A pre \in CanonicalPrefixes, lead \in { << >>, << "@" >> }, name \in Names :
        \A ending \in { << >>, << "/" >>, << "?", "h", "l", "=", "e", "n" >>,
                        << "/", "?", "h", "l", "=", "e", "n" >> } :
           url = pre \o << "/" >> \o lead \o name \o ending
           => username = (IF name \in { S_p, S_reel, S_reels, S_tv, S_stories, S_explore,
                                        S_accounts }
                          THEN NoMatch ELSE name)

C23_Witness ==
    /\ Classified
    /\ url = S_https \o S_www \o << "/", "@" >> \o S_explore \o << "/" >>
    /\ username = NoMatch /\ instagram_id = NoMatch /\ valid

ProfileOrder == << "web", "api" >>

\* C24: the profile cascade attempts the web-page strategy, then the
\* internal-API strategy, and the second only when the first raised or returned
\* None; the first result that is not None is what extract returns, and
\* nothing is attempted after it; when both failed, extract raises DownloadError;
\* what a strategy raised (an Exception) is never what extract raises.
C24_ProfileOrder ==
    /\ []( (ProfileCascade /\ dpc # "done") =>
             /\ Len(methodLog) <= Len(ProfileOrder)
             /\ \A i \in 1..Len(methodLog) :
                  /\ methodLog[i].name = ProfileOrder[i]
                  /\ i < Len(methodLog) => methodLog[i].ended \in { "raised", "none" }
             /\ \A i \in 1..Len(sentLog) :
                  /\ sentLog[i] \in { "p_web", "p_api" }
                  /\ sentLog[i] = "p_api" => Len(methodLog) >= 1
                  /\ (i > 1 /\ sentLog[i] = "p_web") => sentLog[i - 1] = "p_web"
             /\ dpc = "p_web" => Len(methodLog) = 0
             /\ dpc = "p_api" => Len(methodLog) = 1
             /\ dpc = "returned"
                => ( /\ methodLog[Len(methodLog)].ended = "usable"
                     /\ info = ProfileInfo
                     /\ Len(methodLog) = 1 => \A i \in 1..Len(sentLog) : sentLog[i] = "p_web" )
             /\ (Len(methodLog) >= 1 /\ methodLog[Len(methodLog)].ended = "usable")
                => dpc = "returned"
             /\ error \in { "none", "DownloadError", "KeyboardInterrupt" }
             /\ (dpc = "raised" /\ error = "DownloadError")
                => ( /\ Len(methodLog) = Len(ProfileOrder)
                     /\ \A i \in 1..Len(methodLog) : methodLog[i].ended \in { "raised", "none" } ) )
    /\ [][ (ProfileCascade /\ dpc = "p_web" /\ rpc = "raised" /\ Caught(outcome))
           => (dpc' = "p_api" /\ rpc' = "call" /\ error' = "none") ]_vars

C24_Witness ==
    /\ ProfileCascade /\ dpc = "raised" /\ error = "DownloadError"
    /\ Len(methodLog) = 2
    /\ methodLog[1].ended = "raised" /\ methodLog[2].ended = "none"
    /\ sentLog = << "p_web", "p_api", "p_api", "p_api" >>

\* ---- the parsers: what the claims speak of
Parsed(parser) == ppc = "done" /\ upstream.parser = parser

\* the fields of a page that carry a picture URL under key
FieldsOf(page, key) == { i \in 1..Len(page) : page[i].key = key /\ Len(page[i].value) > 0 }

\* C25: when the page has a profile_pic_url_hd field and a profile_pic_url
\* field (each with a value), the result's URL comes from the first hd field,
\* whichever of the two comes first in the page; every result of the web
\* strategy has type profile_picture, no formats, id and uploader equal to the
\* username, and exactly one image; the image's URL is the value with &
\* turned into & and \/ into /.
C25_ProfileWeb ==
    Parsed("web") =>
      LET page == upstream.input.page
          hd   == FieldsOf(page, "profile_pic_url_hd")
          sd   == FieldsOf(page, "profile_pic_url")
      IN  /\ (hd # { } /\ sd # { })
             => ( /\ parsed # None
                  /\ parsed.images[1].url =
                       (IF page[Min(hd)].value = V_escaped
                        THEN << "a", "/", "b", "&", "c" >> ELSE page[Min(hd)].value) )
          /\ (hd = { } /\ sd # { })
             => ( /\ parsed # None
                  /\ parsed.images[1].url =
                       (IF page[Min(sd)].value = V_escaped
                        THEN << "a", "/", "b", "&", "c" >> ELSE page[Min(sd)].value) )
          /\ parsed # None
             => ( /\ parsed.type = "profile_picture"
                  /\ parsed.formats = << >>
                  /\ parsed.id = upstream.input.username
                  /\ parsed.uploader = upstream.input.username
                  /\ Len(parsed.images) = 1
                  /\ ~Contains(parsed.images[1].url, << "\\", "/" >>)
                  /\ ~Contains(parsed.images[1].url, << "\\", "u", "0", "0", "2", "6" >>) )

C25_Witness ==
    /\ Parsed("web")
    /\ upstream.input.page = << [key |-> "profile_pic_url", value |-> V_plain],
                                [key |-> "other", value |-> V_plain],
                                [key |-> "profile_pic_url_hd", value |-> V_escaped] >>
    /\ parsed.images[1].url = << "a", "/", "b", "&", "c" >>

\* the upstream record holds a carousel container / a video representation
HasContainer(u) ==
    IF u.parser = "item" THEN Len(u.input.carousel_media) > 0
    ELSE "edge_sidecar_to_children" \in DOMAIN u.input
HasVideo(u) ==
    IF u.parser = "item" THEN Len(u.input.video_versions) > 0
    ELSE u.input.is_video \/ u.input.video_url # ""

\* C26 as stated: for both parsers the type is carousel when the upstream
\* record holds a carousel container, else video when it holds a video
\* representation, else image.
C26_TypeNormalized ==
    (Parsed("item") \/ Parsed("graphql")) =>
      parsed.type = (IF HasContainer(upstream) THEN "carousel"
                     ELSE IF HasVideo(upstream) THEN "video" ELSE "image")

\* C27: every entry of formats that a parser (hence a strategy) produces has
\* has_audio true and type video, so the selector's audio filter keeps all of
\* them; an API item with n >= 1 video_versions and no carousel gives type
\* video, exactly n formats and no images.
C27_HasAudio ==
    ppc = "done" =>
      /\ \A i \in 1..Len(parsed.formats) :
           parsed.formats[i].has_audio = TRUE /\ parsed.formats[i].type = "video"
      /\ AudioFilter(parsed.formats) = parsed.formats
      /\ ( /\ upstream.parser = "item"
           /\ Len(upstream.input.carousel_media) = 0
           /\ Len(upstream.input.video_versions) >= 1 )
         => ( /\ parsed.type = "video"
              /\ Len(parsed.formats) = Len(upstream.input.video_versions)
              /\ \A i \in 1..Len(parsed.formats) :
                   parsed.formats[i].url = upstream.input.video_versions[i].url
              /\ parsed.images = << >> )

C27_Witness ==
    /\ Parsed("item")
    /\ Len(upstream.input.video_versions) = 2 /\ Len(upstream.input.candidates) = 2
    /\ Len(upstream.input.carousel_media) = 0
    /\ parsed.type = "video" /\ Len(parsed.formats) = 2 /\ parsed.images = << >>

\* the entries of a list whose format_id is <<kind, idx>>, in order
EntriesOf(list, kind, idx) == SelectSeq(list, LAMBDA f : f.format_id = << kind, idx >>)
CarouselEntries(list) ==
    SelectSeq(list, LAMBDA f : f.format_id[1] \in { "carousel-video", "carousel-image" })

\* C28: for an item with carousel_media, carousel item idx (counted from 0)
\* with video_versions puts exactly its video variants, in order, into formats
\* under carousel-video-idx and nothing into images; any other carousel item
\* puts exactly its first candidate (when it has one) into images under
\* carousel-image-idx and nothing into formats; nothing else carries a
\* carousel- id, and the carousel entries of formats and those of images are
\* in non-decreasing idx.
C28_CarouselFlattening ==
    (Parsed("item") /\ Len(upstream.input.carousel_media) > 0) =>
      LET cm == upstream.input.carousel_media
          cf == CarouselEntries(parsed.formats)
          ci == CarouselEntries(parsed.images)
      IN  /\ \A k \in 1..Len(cm) :
               LET vs == EntriesOf(parsed.formats, "carousel-video", k - 1)
                   is == EntriesOf(parsed.images, "carousel-image", k - 1)
               IN  IF Len(cm[k].video_versions) > 0
                   THEN /\ Len(vs) = Len(cm[k].video_versions)
                        /\ \A i \in 1..Len(vs) :
                             /\ vs[i].url = cm[k].video_versions[i].url
                             /\ vs[i].width = cm[k].video_versions[i].width
                             /\ vs[i].height = cm[k].video_versions[i].height
                        /\ is = << >>
                   ELSE /\ vs = << >>
                        /\ Len(is) = (IF Len(cm[k].candidates) > 0 THEN 1 ELSE 0)
                        /\ \A i \in 1..Len(is) : is[i].url = cm[k].candidates[1].url
          /\ \A i \in 1..Len(cf) :
               /\ cf[i].format_id[1] = "carousel-video"
               /\ cf[i].format_id[2] \in 0..(Len(cm) - 1)
               /\ i > 1 => cf[i - 1].format_id[2] <= cf[i].format_id[2]
          /\ \A i \in 1..Len(ci) :
               /\ ci[i].format_id[1] = "carousel-image"
               /\ ci[i].format_id[2] \in 0..(Len(cm) - 1)
               /\ i > 1 => ci[i - 1].format_id[2] < ci[i].format_id[2]
          /\ Len(parsed.formats) = Len(upstream.input.video_versions) + Len(cf)
          /\ parsed.type = "carousel"

C28_Witness ==
    /\ Parsed("item")
    /\ Len(upstream.input.carousel_media) = 3
    /\ Len(upstream.input.carousel_media[1].candidates) = 2
    /\ Len(upstream.input.carousel_media[1].video_versions) = 0
    /\ Len(upstream.input.carousel_media[2].video_versions) = 2
    /\ Len(upstream.input.carousel_media[3].video_versions) = 0
    /\ Len(upstream.input.carousel_media[3].candidates) = 1
    /\ Len(upstream.input.video_versions) = 0
    /\ Len(parsed.formats) = 2 /\ Len(parsed.images) >= 2
    /\ parsed.images[Len(parsed.images)].format_id = << "carousel-image", 2 >>

\* C29: a media-info API request is sent only after a warm-up request of
\* the same strategy run, and when the warm-up has ended, by returning or by
\* raising what "except Exception" catches (NetworkError after the retries,
\* DownloadError for 404 and 403), the strategy neither raises nor skips the
\* API request: its next step enters the media-info request, and the next
\* request sent is that one.
C29_WarmupThenApi ==
    /\ [](\A i \in 1..Len(sentLog) :
             sentLog[i] = "api_info"
             => /\ i > 1
                /\ sentLog[i - 1] \in { "api_warmup", "api_info" }
                /\ \E j \in 1..(i - 1) : sentLog[j] = "api_warmup")
    /\ [][ /\ ( /\ dpc = "api_warmup" /\ WrapperDone
                /\ (rpc = "returned" \/ outcome \in { "NetworkError", "DownloadError" })
                /\ dpc' # dpc )
              => ( /\ dpc' = "api_info" /\ rpc' = "call" /\ func' = "_make_request"
                   /\ attempt' = 0 /\ error' = error /\ methodLog' = methodLog )
           /\ (dpc = "api_info" /\ rpc = "call" /\ attempt = 0)
              => sentLog' = Append(sentLog, "api_info") ]_vars

C29_Witness ==
    /\ sentLog = << "api_warmup", "api_warmup", "api_warmup", "api_info" >>
    /\ dpc = "api_info" /\ error = "none"

\* the requests whose headers hold an X-CSRFToken
CsrfRequests == { "api_info", "graphql", "p_api" }

\* C30: a stored csrftoken is never removed, and the stored value changes only
\* with a response that urlopen returned; a media-info API, GraphQL or
\* profile-API request entered while its extractor holds a csrftoken carries
\* that value, the most recently stored one, in X-CSRFToken, and the header
\* stays as built for all attempts of the request.
C30_CookieSession ==
    /\ []( ( /\ func = "_make_request" /\ rpc = "call" /\ attempt = 0
             /\ dpc \in CsrfRequests
             /\ cookies[Extractor(dpc)] # "absent" )
           => headers = cookies[Extractor(dpc)] )
    /\ [][ /\ \A e \in { "media", "profile" } :
                cookies[e] # "absent" => cookies'[e] # "absent"
           /\ cookies' # cookies
              => ( /\ Len(respLog') = Len(respLog) + 1
                   /\ respLog'[Len(respLog')] \in { "200", "OtherError" }
                   /\ sent' = sent + 1 )
           /\ (rpc \in { "call", "sleep" } /\ rpc' \in { "call", "sleep" } /\ dpc' = dpc)
              => headers' = headers ]_vars

C30_Witness ==
    /\ dpc = "graphql" /\ rpc = "call" /\ attempt = 0 /\ rate_limit = FALSE
    /\ headers = "tokB" /\ cookies.media = "tokB"
    /\ methodLog = << [name |-> "API", ended |-> "none"],
                      [name |-> "Direct Page", ended |-> "raised"] >>

\* a failure to fetch the media URL: an HTTP error status, or a failure to
\* connect when urlopen opens the URL
FetchFailure(o) == o \in { "HTTPError", "URLError" }

\* C31 as stated: a failure to fetch the media URL is retried, no file gets
\* more than 3 attempts, and when all 3 attempts failed so the caller receives
\* NetworkError.
C31_DownloadRetry ==
    func = "_download_file" =>
      /\ Len(respLog) <= DownloadRetries
      /\ \A i \in 1..Len(respLog) :
           (FetchFailure(respLog[i]) /\ i < DownloadRetries)
           => (i < Len(respLog) \/ rpc \in { "sleep", "call" })
      /\ ( /\ rpc = "raised"
           /\ \A i \in 1..Len(respLog) : FetchFailure(respLog[i]) )
         => (Len(respLog) = DownloadRetries /\ outcome = "NetworkError")

\* C32: after every return of wait_if_needed the timestamp sequence holds
\* between 1 and max_requests entries, the last of them the call's own start;
\* the entries before it, those retained when the call appended, are each
\* younger than time_window at the call's start; and after a call that slept
\* the sequence is exactly the entry that call appended.
C32_LimiterState ==
    Len(callLog) > 0 =>
      LET call == callLog[Len(callLog)] IN
      /\ Len(requests) \in 1..MaxRequests
      /\ requests[Len(requests)] = call.start
      /\ \A i \in 1..(Len(requests) - 1) :
           /\ call.start - requests[i] < TimeWindow
           /\ requests[i] <= call.start
      /\ call.slept => requests = << call.start >>

C32_Witness ==
    /\ Len(callLog) = MaxRequests + 1
    /\ callLog[MaxRequests + 1].slept
    /\ callLog[1].start < callLog[MaxRequests + 1].start
    /\ requests = << callLog[MaxRequests + 1].start >>

\* C33 as stated: what _parse_media_item returns has more than one entry in
\* images only if its type is carousel, so an image post that is not a
\* carousel, whatever number of candidates it lists, gives download exactly
\* one URL to fetch.
C33_MultipleImagesMeanCarousel ==
    Parsed("item") =>
      /\ Len(parsed.images) > 1 => parsed.type = "carousel"
      /\ (parsed.type = "image" /\ Len(upstream.input.candidates) > 0)
         => Len(Targets(parsed, NotSelected)) = 1

\* the request attempts made so far at position p
Attempts(p) == Cardinality({ i \in 1..Len(sentLog) : sentLog[i] = p })

\* C34: a get_info call makes at most 12 outbound request attempts on a media
\* URL and at most 6 on a profile URL, at most 3 for each of the warm-up, API,
\* GraphQL and embed requests (the web and API requests of a profile); no
\* strategy is attempted twice; and the call ends, with a returned MediaInfo or
\* with a raised error.
C34_BoundedWork ==
    /\ []( /\ sent = Len(sentLog)
           /\ sent <= (IF Profile(url) THEN 6 ELSE 12)
           /\ \A p \in Range(sentLog) :
                /\ Attempts(p) <= 3
                /\ p \in (IF Profile(url) THEN { "p_web", "p_api" }
                          ELSE { "api_warmup", "api_info", "graphql", "embed" })
           /\ \A i, j \in 1..Len(methodLog) :
                methodLog[i].name = methodLog[j].name => i = j
           /\ dpc = "returned" => (info # None /\ error = "none")
           /\ dpc = "raised" => (info = None /\ error # "none") )
    /\ <>(dpc \in { "returned", "raised" })

C34_Witness ==
    /\ dpc = "raised" /\ error = "DownloadError" /\ sent = 12
    /\ Attempts("api_warmup") = 3 /\ Attempts("embed") = 3
    /\ Len(methodLog) = 4

====
